---- MODULE Spec2Model ----
(***************************************************************************)
(* VeridiFi Green Treasury: the fetch -> verify -> decide -> settle        *)
(* pipelines of src/agents.                                                *)
(*                                                                         *)
(* The repository has several entry points that duplicate the pipeline:    *)
(*   "veridifi"  run_veridifi_swarm   (scout -> auditor -> manager ->      *)
(*               settlement), green_treasury_swarm.py                      *)
(*   "legacy"    run_green_treasury   (oracle_scout -> environmental_      *)
(*               auditor -> error_halt | treasury_manager -> settlement)   *)
(*   "dashboard" update_data_loop of dashboard_server.py                   *)
(*   "terminal"  ManagerTerminal.make_decision of manager_terminal.py      *)
(*   "guardrail" green_guardrail_agent of agents.py                        *)
(* Each is a separate program; a behaviour of the model runs one of them,  *)
(* chosen in Init.                                                         *)
(*                                                                         *)
(* Units: prices are in US cents (1.10 USD = 110), ages in seconds,        *)
(* intensities in gCO2/kWh.  An age is current_time - timestamp, which is  *)
(* the only way the code uses a timestamp.                                 *)
(***************************************************************************)
EXTENDS Integers, Sequences, FiniteSets, TLC

\* ---------------------------------------------------------------- constants
ORACLE_TIMEOUT_SECONDS == 180
XRP_TARGET_PRICE == 110
GREEN_THRESHOLD == 50
AMBER_THRESHOLD == 150
GREEN_ENERGY_THRESHOLD == 100
\* intensity the dashboard substitutes when the National Grid API fails
FAILSAFE_INTENSITY == 200

\* Python's None for optional integers (every real value is >= 0)
None == 0 - 1
\* outcome "the contract call raised" of an external read
Raises == 0 - 2

\* ------------------------------------------------------------------- bounds
\* round ids range over 0..MaxRoundId
MaxRoundId == 1
\* threads that start_agents may create in one behaviour
MaxThreads == 2
\* calls of log_agent and of log_plasma_command in one behaviour
MaxLogCalls == 102
MaxCmdCalls == 52
\* wallet requests the server answers plus payouts the loop starts, in one
\* behaviour
MaxServerOps == 2

\* sample values of the external feeds
PriceValues == {105, 110, 120}
XrpAgeValues == {10, 180, 181}
BtcAgeValues == {10, 200}
IntensityValues == {0, 30, 50, 150}
ApiIntensityValues == {None, 30}

\* ------------------------------------------------------- the external world
\* One answer of the price oracle to getLatestPrices(), as seen through
\* get_latest_prices: ok = FALSE is every path that returns None.
PriceWorlds ==
    {[ok |-> FALSE, xrp_price |-> None, xrp_age |-> None, btc_age |-> None]}
    \cup [ok : {TRUE}, xrp_price : PriceValues, xrp_age : XrpAgeValues,
          btc_age : BtcAgeValues]

\* One state of the VeridiFiCore contract as seen by the adapter:
\*   core      veridiFi_core is configured
\*   round     latestRoundId(): a round id, or Raises
\*   round_int getCarbonIntensity(round): an intensity, or Raises
\*   latest    getLatestCarbonIntensity(): an intensity, or Raises
\* getCarbonIntensity is only ever called for a round id > 0; for the other
\* rounds its outcome is fixed to Raises.
AttWorlds ==
    {[core |-> FALSE, round |-> Raises, round_int |-> Raises, latest |-> Raises]}
    \cup {w \in [core : {TRUE}, round : {Raises} \cup (0..MaxRoundId),
                 round_int : {Raises} \cup IntensityValues,
                 latest : {Raises} \cup IntensityValues] :
             w.round \in {Raises, 0} => w.round_int = Raises}

NoPrice == [ok |-> FALSE, xrp_price |-> None, xrp_age |-> None, btc_age |-> None]
NoAtt == [core |-> FALSE, round |-> Raises, round_int |-> Raises, latest |-> Raises]

\* The attestation reading a contract state yields: whether the read failed,
\* the round id, and the intensity obtained for it (the round's, else the
\* latest; None when the round id is 0 and no intensity is read).
AttestationReading(w) ==
    IF ~w.core \/ w.round = Raises THEN
        [failed |-> TRUE, round |-> None, intensity |-> None]
    ELSE IF w.round = 0 THEN
        [failed |-> FALSE, round |-> 0, intensity |-> None]
    ELSE
        [failed |-> FALSE, round |-> w.round,
         intensity |-> IF w.round_int # Raises THEN w.round_int
                       ELSE IF w.latest # Raises THEN w.latest
                       ELSE 0]

NoReading == [failed |-> TRUE, round |-> None, intensity |-> None]

\* ------------------------------------------------------------ feed adapters
\* ContractInterface.get_latest_prices: None, or the dict of prices and
\* timestamps (ages here).
get_latest_prices(w) ==
    IF ~w.ok THEN [none |-> TRUE, xrp_price |-> None, xrp_age |-> None,
                   btc_age |-> None]
    ELSE [none |-> FALSE, xrp_price |-> w.xrp_price, xrp_age |-> w.xrp_age,
          btc_age |-> w.btc_age]

FdcNone ==
    [none |-> TRUE, verified |-> FALSE, intensity |-> None,
     voting_round_id |-> None, is_low_carbon |-> FALSE, status |-> "None"]

\* intensity read of check_fdc_verification: the round's intensity, else the
\* latest intensity, else the initial 0
FdcIntensityWei(w) ==
    IF w.round_int # Raises THEN w.round_int
    ELSE IF w.latest # Raises THEN w.latest
    ELSE 0

\* mutant: the zero-intensity guard is dropped
check_fdc_verification_NoZeroGuard(w) ==
    IF ~w.core THEN FdcNone
    ELSE IF w.round = Raises THEN FdcNone
    ELSE IF w.round = 0 THEN
        [none |-> FALSE, verified |-> FALSE, intensity |-> None,
         voting_round_id |-> None, is_low_carbon |-> FALSE, status |-> "None"]
    ELSE LET intensity == FdcIntensityWei(w)
             is_low_carbon == intensity < 50
         IN [none |-> FALSE, verified |-> TRUE, intensity |-> intensity,
             voting_round_id |-> w.round, is_low_carbon |-> is_low_carbon,
             status |-> IF is_low_carbon THEN "GREEN_VERIFIED" ELSE "VERIFIED"]

\* ContractInterface.check_fdc_verification.  Keys absent from a returned
\* dict carry the default its readers pass to .get().
check_fdc_verification(w) ==
    IF ~w.core THEN FdcNone
    ELSE IF w.round = Raises THEN FdcNone
    ELSE IF w.round = 0 THEN
        [none |-> FALSE, verified |-> FALSE, intensity |-> None,
         voting_round_id |-> None, is_low_carbon |-> FALSE, status |-> "None"]
    ELSE LET intensity == FdcIntensityWei(w)
         IN IF intensity = 0 THEN
                [none |-> FALSE, verified |-> FALSE, intensity |-> None,
                 voting_round_id |-> w.round, is_low_carbon |-> FALSE,
                 status |-> "None"]
            ELSE LET is_low_carbon == intensity < 50
                 IN [none |-> FALSE, verified |-> TRUE,
                     intensity |-> intensity, voting_round_id |-> w.round,
                     is_low_carbon |-> is_low_carbon,
                     status |-> IF is_low_carbon THEN "GREEN_VERIFIED"
                                ELSE "VERIFIED"]

\* ContractInterface.get_carbon_intensity: the round id is read (0 when the
\* read raises) but the verification flag comes from the intensity alone.
get_carbon_intensity(w) ==
    IF ~w.core \/ w.latest = Raises THEN
        [none |-> TRUE, intensity |-> None, is_green |-> FALSE,
         is_fdc_verified |-> FALSE, latest_round_id |-> None,
         verification_status |-> "None"]
    ELSE LET intensity == w.latest
             is_fdc_verified == intensity > 0
             latest_round_id == IF w.round = Raises THEN 0 ELSE w.round
             is_green == IF is_fdc_verified
                         THEN intensity < GREEN_ENERGY_THRESHOLD ELSE FALSE
         IN [none |-> FALSE, intensity |-> intensity, is_green |-> is_green,
             is_fdc_verified |-> is_fdc_verified,
             latest_round_id |-> latest_round_id,
             verification_status |-> IF is_fdc_verified THEN "FDC_VERIFIED"
                                     ELSE "UNVERIFIED"]

\* ------------------------------------------------------------ shared values
\* an Ethereum address, by the three things the validators look at
DEFAULT_RECIPIENT == [starts0x |-> TRUE, len |-> 41, hex |-> TRUE]
GoodAddress == [starts0x |-> TRUE, len |-> 42, hex |-> TRUE]
BadAddress == [starts0x |-> FALSE, len |-> 42, hex |-> TRUE]
NonHexAddress == [starts0x |-> TRUE, len |-> 42, hex |-> FALSE]
NoAddress == [starts0x |-> FALSE, len |-> 0, hex |-> FALSE]
\* values of the environment variable PLASMA_RECIPIENT_ADDRESS ("" = unset)
EnvRecipients == {NoAddress, GoodAddress, BadAddress, NonHexAddress}

NoReport ==
    [kind |-> "None", xrp_usd |-> None, xrp_freshness_seconds |-> None,
     btc_freshness_seconds |-> None]

NoAudit ==
    [kind |-> "None", intensity |-> None, status |-> "None",
     is_green |-> FALSE, is_amber |-> FALSE, is_red |-> FALSE,
     is_fdc_verified |-> FALSE, voting_round_id |-> None,
     attestation_valid |-> FALSE]

NoPayout ==
    [kind |-> "None", executed |-> FALSE, status |-> "None",
     payment_type |-> "None", recipient |-> NoAddress, has_tx |-> FALSE]

\* TreasuryState as run_veridifi_swarm and run_green_treasury create it.
\* should_halt is not a declared key; its readers default it to False.
\* agent_history (the per-run log list) is not modelled.
initial_state ==
    [ftso_price |-> None, fdc_proof_valid |-> "None",
     payout_status |-> NoPayout, market_report |-> NoReport,
     carbon_audit |-> NoAudit, fdc_verification_status |-> "None",
     treasury_decision |-> "None", decision_reason |-> "None",
     settlement_status |-> NoPayout, errors |-> <<>>, should_halt |-> FALSE]

\* --------------------------------------------- the VeridiFi swarm (new graph)
\* mutant: the timeout comparison is >= instead of >
scout_agent_TimeoutGeq(s, price_data) ==
    IF price_data.none THEN
        [s EXCEPT !.errors = Append(@, "Scout"), !.ftso_price = None]
    ELSE IF price_data.xrp_age >= ORACLE_TIMEOUT_SECONDS THEN
        [s EXCEPT !.errors = Append(@, "Scout"), !.ftso_price = None]
    ELSE
        [s EXCEPT !.ftso_price = price_data.xrp_price,
                  !.market_report =
                      [kind |-> "VALID", xrp_usd |-> price_data.xrp_price,
                       xrp_freshness_seconds |-> price_data.xrp_age,
                       btc_freshness_seconds |-> None]]

\* scout_agent: only the XRP age is checked.  get_latest_prices catches every
\* exception, so the except branch is never entered.
scout_agent(s, price_data) ==
    IF price_data.none THEN
        [s EXCEPT !.errors = Append(@, "Scout"), !.ftso_price = None]
    ELSE IF price_data.xrp_age > ORACLE_TIMEOUT_SECONDS THEN
        [s EXCEPT !.errors = Append(@, "Scout"), !.ftso_price = None]
    ELSE
        [s EXCEPT !.ftso_price = price_data.xrp_price,
                  !.market_report =
                      [kind |-> "VALID", xrp_usd |-> price_data.xrp_price,
                       xrp_freshness_seconds |-> price_data.xrp_age,
                       btc_freshness_seconds |-> None]]

\* auditor_agent.  check_fdc_verification catches every exception, so the
\* except branch is never entered.
auditor_agent(s, fdc_verification) ==
    IF fdc_verification.none THEN
        [s EXCEPT !.fdc_proof_valid = "False",
                  !.fdc_verification_status = "UNVERIFIED"]
    ELSE IF fdc_verification.verified THEN
        LET intensity == fdc_verification.intensity
            fdc_proof_valid == fdc_verification.is_low_carbon /\ intensity < 50
        IN [s EXCEPT !.fdc_proof_valid =
                         IF fdc_proof_valid THEN "True" ELSE "False",
                     !.fdc_verification_status =
                         IF fdc_proof_valid THEN "STATE_GREEN_VERIFIED"
                         ELSE "VERIFIED",
                     !.carbon_audit =
                         [NoAudit EXCEPT !.kind = "audit",
                                         !.intensity = intensity,
                                         !.is_green = fdc_proof_valid,
                                         !.voting_round_id =
                                             fdc_verification.voting_round_id]]
    ELSE
        [s EXCEPT !.fdc_proof_valid = "False",
                  !.fdc_verification_status = "UNVERIFIED"]

\* mutant: a decision already in the state is kept
manager_agent_Sticky(s) ==
    IF s.treasury_decision # "None" THEN s
    ELSE IF s.ftso_price = None THEN
        [s EXCEPT !.treasury_decision = "WAIT",
                  !.decision_reason = "No price data available"]
    ELSE IF s.fdc_proof_valid = "None" THEN
        [s EXCEPT !.treasury_decision = "WAIT",
                  !.decision_reason = "FDC proof status unknown"]
    ELSE IF s.ftso_price < XRP_TARGET_PRICE /\ s.fdc_proof_valid = "True" THEN
        [s EXCEPT !.treasury_decision = "EXECUTE_BUY",
                  !.decision_reason = "Price < target AND FDC proof valid"]
    ELSE
        [s EXCEPT !.treasury_decision = "WAIT",
                  !.decision_reason =
                      IF s.ftso_price >= XRP_TARGET_PRICE
                      THEN "Price >= target"
                      ELSE "FDC proof not valid (carbon >= threshold)"]

\* mutant: the manager ignores the carbon condition
manager_agent_PriceOnly(s) ==
    IF s.ftso_price = None THEN
        [s EXCEPT !.treasury_decision = "WAIT",
                  !.decision_reason = "No price data available"]
    ELSE IF s.ftso_price < XRP_TARGET_PRICE THEN
        [s EXCEPT !.treasury_decision = "EXECUTE_BUY",
                  !.decision_reason = "Price < target AND FDC proof valid"]
    ELSE
        [s EXCEPT !.treasury_decision = "WAIT",
                  !.decision_reason = "Price >= target"]

\* mutant: every WAIT carries the catch-all reason
manager_agent_BareWait(s) ==
    IF s.ftso_price = None THEN
        [s EXCEPT !.treasury_decision = "WAIT",
                  !.decision_reason = "No price data available"]
    ELSE IF s.fdc_proof_valid = "None" THEN
        [s EXCEPT !.treasury_decision = "WAIT",
                  !.decision_reason = "FDC proof status unknown"]
    ELSE IF s.ftso_price < XRP_TARGET_PRICE /\ s.fdc_proof_valid = "True" THEN
        [s EXCEPT !.treasury_decision = "EXECUTE_BUY",
                  !.decision_reason = "Price < target AND FDC proof valid"]
    ELSE
        [s EXCEPT !.treasury_decision = "WAIT",
                  !.decision_reason = "Conditions not met"]

\* manager_agent
manager_agent(s) ==
    IF s.ftso_price = None THEN
        [s EXCEPT !.treasury_decision = "WAIT",
                  !.decision_reason = "No price data available"]
    ELSE IF s.fdc_proof_valid = "None" THEN
        [s EXCEPT !.treasury_decision = "WAIT",
                  !.decision_reason = "FDC proof status unknown"]
    ELSE
        LET price_below_target == s.ftso_price < XRP_TARGET_PRICE
            carbon_below_threshold == s.fdc_proof_valid = "True"
        IN IF price_below_target /\ carbon_below_threshold THEN
               [s EXCEPT !.treasury_decision = "EXECUTE_BUY",
                         !.decision_reason =
                             "Price < target AND FDC proof valid"]
           ELSE
               [s EXCEPT !.treasury_decision = "WAIT",
                         !.decision_reason =
                             IF ~price_below_target THEN "Price >= target"
                             ELSE "FDC proof not valid (carbon >= threshold)"]

\* mutant: the router looks at the price only
should_route_to_settlement_PriceOnly(s) ==
    IF s.ftso_price = None THEN "END"
    ELSE IF s.ftso_price < XRP_TARGET_PRICE THEN "settlement" ELSE "END"

\* should_route_to_settlement: recomputes the manager's condition
should_route_to_settlement(s) ==
    IF s.ftso_price = None \/ s.fdc_proof_valid = "None" THEN "END"
    ELSE LET price_below_target == s.ftso_price < XRP_TARGET_PRICE
             carbon_below_threshold == s.fdc_proof_valid = "True"
         IN IF price_below_target /\ carbon_below_threshold
            THEN "settlement" ELSE "END"

\* outcomes of the subprocess run by settlement_agent
SubprocessOutcomes == {"ok_hash", "ok_nohash", "nonzero", "timeout", "exception"}

\* the recipient argument of the subprocess settlement_agent runs
\* (NoAddress when subprocess.run raised before the script ran)
settlement_agent_subprocess(env_recipient, outcome) ==
    LET recipient == IF env_recipient = NoAddress THEN DEFAULT_RECIPIENT
                     ELSE env_recipient
    IN IF outcome = "exception" THEN NoAddress ELSE recipient

\* mutant: an exception of subprocess.run escapes the node, which then
\* leaves no payout_status
settlement_agent_Propagates(s, env_recipient, outcome) ==
    LET recipient == IF env_recipient = NoAddress THEN DEFAULT_RECIPIENT
                     ELSE env_recipient
    IN IF outcome \in {"ok_hash", "ok_nohash"} THEN
           LET payout_status ==
                   [kind |-> "set", executed |-> TRUE, status |-> "COMPLETED",
                    payment_type |-> "None", recipient |-> recipient,
                    has_tx |-> outcome = "ok_hash"]
           IN [s EXCEPT !.payout_status = payout_status,
                        !.settlement_status = payout_status]
       ELSE IF outcome = "exception" THEN s
       ELSE
           [s EXCEPT !.payout_status =
                         [kind |-> "set", executed |-> FALSE,
                          status |-> "FAILED", payment_type |-> "None",
                          recipient |-> NoAddress, has_tx |-> FALSE]]

\* settlement_agent: runs plasma_settlement.ts for the environment's
\* recipient (or the default) without validating it.
settlement_agent(s, env_recipient, outcome) ==
    LET recipient == IF env_recipient = NoAddress THEN DEFAULT_RECIPIENT
                     ELSE env_recipient
    IN IF outcome \in {"ok_hash", "ok_nohash"} THEN
           LET payout_status ==
                   [kind |-> "set", executed |-> TRUE, status |-> "COMPLETED",
                    payment_type |-> "None", recipient |-> recipient,
                    has_tx |-> outcome = "ok_hash"]
           IN [s EXCEPT !.payout_status = payout_status,
                        !.settlement_status = payout_status]
       ELSE
           [s EXCEPT !.payout_status =
                         [kind |-> "set", executed |-> FALSE,
                          status |-> "FAILED", payment_type |-> "None",
                          recipient |-> NoAddress, has_tx |-> FALSE]]

\* ------------------------------------------------ the payout collaborator
\* the process environment the payout code reads
\* (everything in place, or exactly one thing missing)
PlasmaEnvs ==
    {e \in [module_ok : BOOLEAN, green_reward_set : BOOLEAN,
            private_key_set : BOOLEAN, usdt_set : BOOLEAN,
            script_exists : BOOLEAN] :
        Cardinality({f \in {"module_ok", "green_reward_set", "private_key_set",
                            "usdt_set", "script_exists"} : ~e[f]}) <= 1}

\* plasma_payout.check_plasma_setup: configured iff no issue was found
check_plasma_setup(env) ==
    [configured |-> env.green_reward_set /\ env.private_key_set
                    /\ env.usdt_set /\ env.script_exists]

\* plasma_payout.send_plasma_reward: success flag and whether a hash was parsed
send_plasma_reward(recipient_address, env, outcome) ==
    IF ~recipient_address.starts0x \/ recipient_address.len # 42 THEN
        [success |-> FALSE, has_tx |-> FALSE, called |-> FALSE]
    ELSE IF ~env.script_exists THEN
        [success |-> FALSE, has_tx |-> FALSE, called |-> FALSE]
    ELSE IF ~env.green_reward_set THEN
        [success |-> FALSE, has_tx |-> FALSE, called |-> FALSE]
    ELSE IF outcome \in {"ok_hash", "ok_nohash"} THEN
        [success |-> TRUE, has_tx |-> outcome = "ok_hash", called |-> TRUE]
    ELSE
        [success |-> FALSE, has_tx |-> FALSE, called |-> outcome # "exception"]

\* ------------------------------------------- the Green Treasury (legacy graph)
\* oracle_scout_agent: both the BTC and the XRP age are checked
oracle_scout_agent(s, price_data) ==
    IF price_data.none THEN
        [s EXCEPT !.errors = Append(@, "Scout"), !.market_report = NoReport]
    ELSE IF price_data.btc_age > ORACLE_TIMEOUT_SECONDS
            \/ price_data.xrp_age > ORACLE_TIMEOUT_SECONDS THEN
        [s EXCEPT !.errors = Append(@, "Scout"),
                  !.market_report =
                      [kind |-> "ORACLE_TIMEOUT", xrp_usd |-> None,
                       xrp_freshness_seconds |-> price_data.xrp_age,
                       btc_freshness_seconds |-> price_data.btc_age]]
    ELSE
        [s EXCEPT !.market_report =
                      [kind |-> "VALID", xrp_usd |-> price_data.xrp_price,
                       xrp_freshness_seconds |-> price_data.xrp_age,
                       btc_freshness_seconds |-> price_data.btc_age]]

\* mutant: the green comparison is <= instead of <
EnergyStatus_GreenLeq(intensity) ==
    IF intensity = None THEN "Unknown"
    ELSE IF intensity <= GREEN_THRESHOLD THEN "Green"
    ELSE IF intensity < AMBER_THRESHOLD THEN "Amber"
    ELSE "Red"

\* mutant: the amber comparison is <= instead of <
EnergyStatus_AmberLeq(intensity) ==
    IF intensity = None THEN "Unknown"
    ELSE IF intensity < GREEN_THRESHOLD THEN "Green"
    ELSE IF intensity <= AMBER_THRESHOLD THEN "Amber"
    ELSE "Red"

\* Green / Amber / Red by the two thresholds
EnergyStatus(intensity) ==
    IF intensity = None THEN "Unknown"
    ELSE IF intensity < GREEN_THRESHOLD THEN "Green"
    ELSE IF intensity < AMBER_THRESHOLD THEN "Amber"
    ELSE "Red"

\* environmental_auditor_agent
environmental_auditor_agent(s, fdc_verification) ==
    LET voting_round_id == IF fdc_verification.none THEN None
                           ELSE fdc_verification.voting_round_id
        is_fdc_verified == ~fdc_verification.none /\ fdc_verification.verified
        attestation_valid == is_fdc_verified
        intensity == IF is_fdc_verified THEN fdc_verification.intensity
                     ELSE None
        verification_status ==
            IF ~is_fdc_verified THEN "UNVERIFIED"
            ELSE IF fdc_verification.is_low_carbon /\ intensity < 50
                 THEN "STATE_GREEN_VERIFIED" ELSE "VERIFIED"
        status == EnergyStatus(intensity)
    IN IF ~attestation_valid \/ ~is_fdc_verified THEN
           [s EXCEPT !.errors = Append(@, "Auditor"),
                     !.carbon_audit =
                         [NoAudit EXCEPT !.kind = "error", !.status = "Error",
                                         !.voting_round_id = voting_round_id],
                     !.fdc_verification_status = "ERROR_HALT",
                     !.should_halt = TRUE]
       ELSE
           [s EXCEPT !.carbon_audit =
                         [kind |-> "audit", intensity |-> intensity,
                          status |-> status, is_green |-> status = "Green",
                          is_amber |-> status = "Amber",
                          is_red |-> status = "Red",
                          is_fdc_verified |-> is_fdc_verified,
                          voting_round_id |-> voting_round_id,
                          attestation_valid |-> attestation_valid],
                     !.fdc_verification_status = verification_status,
                     !.should_halt = FALSE]

\* mutant: only a run without any carbon audit is routed to error_halt
should_route_to_error_halt_MissingOnly(s) ==
    IF s.carbon_audit.kind = "None" THEN "error_halt" ELSE "treasury_manager"

\* should_route_to_error_halt
should_route_to_error_halt(s) ==
    IF s.should_halt \/ s.fdc_verification_status = "ERROR_HALT"
    THEN "error_halt" ELSE "treasury_manager"

\* error_halt_agent
error_halt_agent(s) ==
    [s EXCEPT !.treasury_decision = "ERROR_HALT",
              !.decision_reason = "FDC attestation verification failed"]

\* treasury_manager_agent
treasury_manager_agent(s) ==
    LET market_report == s.market_report
        carbon_audit == s.carbon_audit
        fdc_status == s.fdc_verification_status
    IN IF market_report.kind = "ORACLE_TIMEOUT" THEN
           [s EXCEPT !.treasury_decision = "HALT_ACTIVITY",
                     !.decision_reason = "Oracle Timeout: FTSO data is stale"]
       ELSE IF market_report.kind = "None" \/ carbon_audit.kind = "None" THEN
           [s EXCEPT !.treasury_decision = "HALT_ACTIVITY",
                     !.decision_reason =
                         "Missing required data: Market Report or Carbon Audit unavailable"]
       ELSE IF ~carbon_audit.is_fdc_verified
               \/ fdc_status # "STATE_GREEN_VERIFIED" THEN
           [s EXCEPT !.treasury_decision = "WAIT",
                     !.decision_reason =
                         IF ~carbon_audit.is_fdc_verified
                         THEN "FDC proof not verified"
                         ELSE IF fdc_status = "VERIFIED"
                         THEN "FDC verified but carbon is not low"
                         ELSE "FDC verification pending"]
       ELSE IF carbon_audit.is_red THEN
           [s EXCEPT !.treasury_decision = "HALT_ACTIVITY",
                     !.decision_reason = "Energy is Red"]
       ELSE IF carbon_audit.is_green /\ fdc_status = "STATE_GREEN_VERIFIED"
               /\ market_report.xrp_usd < XRP_TARGET_PRICE THEN
           [s EXCEPT !.treasury_decision = "EXECUTE_BUY",
                     !.decision_reason =
                         "STATE_GREEN_VERIFIED AND XRP Price below target"]
       ELSE
           [s EXCEPT !.treasury_decision = "WAIT",
                     !.decision_reason =
                         IF ~carbon_audit.is_green
                         THEN "Energy is not Green"
                         ELSE IF market_report.xrp_usd >= XRP_TARGET_PRICE
                         THEN "XRP Price is above target"
                         ELSE "Conditions not met"]

\* mutant: a run that does not buy is sent back to the entry node
should_continue_to_settlement_Retry(s) ==
    IF s.treasury_decision = "EXECUTE_BUY" THEN "settlement"
    ELSE "oracle_scout"

\* should_continue_to_settlement
should_continue_to_settlement(s) ==
    IF s.treasury_decision = "EXECUTE_BUY" THEN "settlement" ELSE "END"

\* _mock_plasma_payment
_mock_plasma_payment(s, env_recipient) ==
    LET user_wallet == IF env_recipient = NoAddress THEN DEFAULT_RECIPIENT
                       ELSE env_recipient
    IN [s EXCEPT !.settlement_status =
                     [kind |-> "set", executed |-> TRUE,
                      status |-> "COMPLETED",
                      payment_type |-> "Green Reward (Mock)",
                      recipient |-> user_wallet, has_tx |-> TRUE]]

\* the recipient argument of the subprocess settlement_agent_old runs
\* through send_plasma_reward (NoAddress when no subprocess ran)
settlement_agent_old_subprocess(s, env, env_recipient, outcome) ==
    LET user_wallet == IF env_recipient = NoAddress THEN DEFAULT_RECIPIENT
                       ELSE env_recipient
    IN IF /\ s.treasury_decision = "EXECUTE_BUY"
          /\ env.module_ok
          /\ check_plasma_setup(env).configured
          /\ send_plasma_reward(user_wallet, env, outcome).called
       THEN user_wallet ELSE NoAddress

\* settlement_agent_old
settlement_agent_old(s, env, env_recipient, outcome) ==
    IF s.treasury_decision # "EXECUTE_BUY" THEN
        [s EXCEPT !.settlement_status =
                      [NoPayout EXCEPT !.kind = "set"]]
    ELSE IF ~env.module_ok THEN _mock_plasma_payment(s, env_recipient)
    ELSE IF ~check_plasma_setup(env).configured
         THEN _mock_plasma_payment(s, env_recipient)
    ELSE
        LET user_wallet == IF env_recipient = NoAddress THEN DEFAULT_RECIPIENT
                           ELSE env_recipient
            result == send_plasma_reward(user_wallet, env, outcome)
        IN IF result.success THEN
               [s EXCEPT !.settlement_status =
                             [kind |-> "set", executed |-> TRUE,
                              status |-> "COMPLETED",
                              payment_type |-> "Green Reward (Plasma)",
                              recipient |-> user_wallet,
                              has_tx |-> result.has_tx]]
           ELSE _mock_plasma_payment(s, env_recipient)

\* ------------------------------------------------------------ the dashboard
\* current_data after module import.  agent_logs and plasma_commands (the
\* bounded logs) and the user_credits / user_balance counters are left out.
initial_current_data ==
    [market_report |-> NoReport, carbon_audit |-> NoAudit,
     fdc_verification_status |-> "None",
     treasury_decision |-> [decision |-> "None", reason |-> "None"],
     settlement_status |-> NoPayout, user_wallet_address |-> NoAddress]

\* fetch_market_data: None (kind "None"), the ORACLE_TIMEOUT dict, or the report
fetch_market_data(price_data) ==
    IF price_data.none THEN NoReport
    ELSE IF price_data.btc_age > 180 \/ price_data.xrp_age > 180 THEN
        [kind |-> "ORACLE_TIMEOUT", xrp_usd |-> None,
         xrp_freshness_seconds |-> price_data.xrp_age,
         btc_freshness_seconds |-> price_data.btc_age]
    ELSE
        [kind |-> "VALID", xrp_usd |-> price_data.xrp_price,
         xrp_freshness_seconds |-> price_data.xrp_age,
         btc_freshness_seconds |-> price_data.btc_age]

\* answers of the National Grid API: an intensity, None, or a failed request
ApiOutcomes == {Raises} \cup ApiIntensityValues

\* fetch_carbon_data requests the National Grid API only when the FDC reading
\* is not verified
ApiInputs(fdc_verification) ==
    IF ~fdc_verification.none /\ fdc_verification.verified
    THEN {Raises} ELSE ApiOutcomes

\* fetch_carbon_data: the FDC reading when verified, else the unverified API
\* value, else the fail-safe 200.  fdc_round_id reads the key
\* "latest_round_id", which check_fdc_verification never sets.
fetch_carbon_data(fdc_verification, api) ==
    LET is_fdc_verified == ~fdc_verification.none /\ fdc_verification.verified
        intensity == IF is_fdc_verified THEN fdc_verification.intensity
                     ELSE IF api = Raises THEN FAILSAFE_INTENSITY
                     ELSE api
        status == EnergyStatus(intensity)
    IN [kind |-> "audit", intensity |-> intensity, status |-> status,
        is_green |-> status = "Green", is_amber |-> status = "Amber",
        is_red |-> status = "Red", is_fdc_verified |-> is_fdc_verified,
        voting_round_id |-> None, attestation_valid |-> FALSE]

\* mutant: every verified audit is given the green status
LoopVerificationStatus_VerifiedIsGreen(carbon_audit) ==
    IF carbon_audit.is_fdc_verified THEN "STATE_GREEN_VERIFIED"
    ELSE "UNVERIFIED"

\* the status update_data_loop derives from a fetched carbon audit
LoopVerificationStatus(carbon_audit) ==
    IF carbon_audit.is_fdc_verified THEN
        IF carbon_audit.is_green THEN "STATE_GREEN_VERIFIED" ELSE "VERIFIED"
    ELSE "UNVERIFIED"

\* the recipient the dashboard pays: user wallet, else environment, else default
DashboardRecipient(cd, env_recipient) ==
    IF cd.user_wallet_address # NoAddress THEN cd.user_wallet_address
    ELSE IF env_recipient # NoAddress THEN env_recipient
    ELSE DEFAULT_RECIPIENT

\* _mock_plasma_payout
_mock_plasma_payout(cd, env_recipient) ==
    [cd EXCEPT !.settlement_status =
                   [kind |-> "set", executed |-> TRUE, status |-> "COMPLETED",
                    payment_type |-> "Green Reward (Mock)",
                    recipient |-> DashboardRecipient(cd, env_recipient),
                    has_tx |-> TRUE]]

\* the recipient argument of the subprocess _execute_plasma_payout runs
\* through send_plasma_reward (NoAddress when no subprocess ran)
_execute_plasma_payout_subprocess(cd, env, env_recipient, outcome) ==
    LET recipient == DashboardRecipient(cd, env_recipient)
    IN IF /\ env.module_ok
          /\ check_plasma_setup(env).configured
          /\ send_plasma_reward(recipient, env, outcome).called
       THEN recipient ELSE NoAddress

\* mutant: a payout already recorded in settlement_status is not repeated
_execute_plasma_payout_Dedup(cd, env, env_recipient, outcome) ==
    IF cd.settlement_status.executed THEN cd
    ELSE IF ~env.module_ok THEN _mock_plasma_payout(cd, env_recipient)
    ELSE IF ~check_plasma_setup(env).configured
         THEN _mock_plasma_payout(cd, env_recipient)
    ELSE
        LET recipient == DashboardRecipient(cd, env_recipient)
            result == send_plasma_reward(recipient, env, outcome)
        IN IF result.success THEN
               [cd EXCEPT !.settlement_status =
                              [kind |-> "set", executed |-> TRUE,
                               status |-> "COMPLETED",
                               payment_type |-> "Green Reward (Plasma)",
                               recipient |-> recipient,
                               has_tx |-> result.has_tx]]
           ELSE _mock_plasma_payout(cd, env_recipient)

\* _execute_plasma_payout
_execute_plasma_payout(cd, env, env_recipient, outcome) ==
    IF ~env.module_ok THEN _mock_plasma_payout(cd, env_recipient)
    ELSE IF ~check_plasma_setup(env).configured
         THEN _mock_plasma_payout(cd, env_recipient)
    ELSE
        LET recipient == DashboardRecipient(cd, env_recipient)
            result == send_plasma_reward(recipient, env, outcome)
        IN IF result.success THEN
               [cd EXCEPT !.settlement_status =
                              [kind |-> "set", executed |-> TRUE,
                               status |-> "COMPLETED",
                               payment_type |-> "Green Reward (Plasma)",
                               recipient |-> recipient,
                               has_tx |-> result.has_tx]]
           ELSE _mock_plasma_payout(cd, env_recipient)

\* make_treasury_decision, with the payout it triggers
make_treasury_decision(cd, env, env_recipient, outcome) ==
    LET market_report == cd.market_report
        carbon_audit == cd.carbon_audit
        fdc_status == cd.fdc_verification_status
    IN IF market_report.kind = "None" \/ carbon_audit.kind = "None" THEN cd
       ELSE IF market_report.kind = "ORACLE_TIMEOUT" THEN
           [cd EXCEPT !.treasury_decision =
                          [decision |-> "HALT_ACTIVITY",
                           reason |-> "Oracle Timeout: FTSO data is stale"]]
       ELSE IF ~carbon_audit.is_fdc_verified
               \/ fdc_status # "STATE_GREEN_VERIFIED" THEN
           [cd EXCEPT !.treasury_decision =
                          [decision |-> "WAIT",
                           reason |->
                               IF ~carbon_audit.is_fdc_verified
                               THEN "FDC proof not verified"
                               ELSE IF fdc_status = "VERIFIED"
                               THEN "FDC verified but carbon is not low"
                               ELSE "FDC verification pending"]]
       ELSE IF carbon_audit.is_red THEN
           [cd EXCEPT !.treasury_decision =
                          [decision |-> "HALT_ACTIVITY",
                           reason |-> "Energy is Red"]]
       ELSE IF carbon_audit.is_green /\ fdc_status = "STATE_GREEN_VERIFIED"
               /\ market_report.xrp_usd < XRP_TARGET_PRICE THEN
           _execute_plasma_payout(
               [cd EXCEPT !.treasury_decision =
                              [decision |-> "EXECUTE_BUY",
                               reason |->
                                   "STATE_GREEN_VERIFIED AND XRP Price below target"]],
               env, env_recipient, outcome)
       ELSE
           [cd EXCEPT !.treasury_decision =
                          [decision |-> "WAIT",
                           reason |->
                               IF ~carbon_audit.is_green
                               THEN "Waiting for Green energy"
                               ELSE IF market_report.xrp_usd >= XRP_TARGET_PRICE
                               THEN "XRP price above target"
                               ELSE "Conditions not met"]]

\* make_treasury_decision reads the payout's inputs (environment, recipient
\* variable, outcome of the subprocess) only when it decides EXECUTE_BUY
PayoutInputs(cd) ==
    LET env0 == CHOOSE e \in PlasmaEnvs : TRUE
        d == make_treasury_decision(cd, env0, NoAddress, "ok_hash")
    IN IF cd.market_report.kind # "None" /\ cd.carbon_audit.kind # "None"
          /\ d.treasury_decision.decision = "EXECUTE_BUY"
       THEN PlasmaEnvs \X EnvRecipients \X SubprocessOutcomes
       ELSE {<<env0, NoAddress, "ok_hash">>}

\* admin_pay_user (/api/admin/pay-user): the HTTP status of the answer and
\* whether send_plasma_reward was called.  No mock payout is made here.
admin_pay_user(cd, amount_ok, env, env_recipient, outcome) ==
    IF ~amount_ok THEN [code |-> 400, called |-> FALSE]
    ELSE IF ~env.module_ok THEN [code |-> 500, called |-> FALSE]
    ELSE IF ~check_plasma_setup(env).configured
    THEN [code |-> 400, called |-> FALSE]
    ELSE LET recipient == DashboardRecipient(cd, env_recipient)
             result == send_plasma_reward(recipient, env, outcome)
         IN [code |-> IF result.success THEN 200 ELSE 500, called |-> TRUE]

\* the requests and environments admin_pay_user is tried with: an invalid
\* amount, and a valid one with the payout module missing, GREEN_REWARD
\* unset, or everything in place and the subprocess succeeding or failing
AdminInputs ==
    LET envs == {e \in PlasmaEnvs :
                    e.private_key_set /\ e.usdt_set /\ e.script_exists}
        env0 == CHOOSE e \in envs : e.module_ok /\ e.green_reward_set
    IN {<<FALSE, env0, NoAddress, "ok_hash">>}
       \cup ({TRUE} \X envs \X {NoAddress} \X {"ok_hash", "nonzero"})

\* ---- the entries the dashboard's steps append to agent_logs (log_agent calls)
\* An entry is kept by the component it names and, for a "DECISION: ..."
\* message, the verdict it states.
Entry(agent_name) == [agent |-> agent_name, verdict |-> "None"]
DecisionEntry(verdict) == [agent |-> "Manager", verdict |-> verdict]
Times(e, n) == [i \in 1..n |-> e]

\* fetch_market_data: every path logs as Scout
fetch_market_data_logs(price_data) ==
    IF price_data.none THEN <<Entry("Scout")>>
    ELSE IF price_data.btc_age > 180 \/ price_data.xrp_age > 180
         THEN <<Entry("Scout")>>
    ELSE Times(Entry("Scout"), 2)

\* fetch_carbon_data
fetch_carbon_data_logs(fdc_verification, api) ==
    LET is_fdc_verified == ~fdc_verification.none /\ fdc_verification.verified
    IN (IF is_fdc_verified THEN Times(Entry("Auditor"), 2)
        ELSE Times(Entry("Auditor"), 2)
             \o (IF api = Raises THEN Times(Entry("Auditor"), 2)
                 ELSE <<Entry("Auditor")>>))
       \o Times(Entry("Auditor"), 2)

\* _mock_plasma_payout(error_msg)
_mock_plasma_payout_logs(has_error_msg) ==
    Times(Entry("Settlement"), IF has_error_msg THEN 4 ELSE 3)

\* _execute_plasma_payout
_execute_plasma_payout_logs(cd, env, env_recipient, outcome) ==
    IF ~env.module_ok
    THEN <<Entry("Settlement")>> \o _mock_plasma_payout_logs(FALSE)
    ELSE IF ~check_plasma_setup(env).configured
    THEN Times(Entry("Settlement"), 2) \o _mock_plasma_payout_logs(FALSE)
    ELSE Times(Entry("Settlement"), 4)
         \o (IF send_plasma_reward(DashboardRecipient(cd, env_recipient),
                                   env, outcome).success
             THEN Times(Entry("Settlement"), 4)
             ELSE Times(Entry("Settlement"), 2)
                  \o _mock_plasma_payout_logs(TRUE))

\* mutant: the oracle-timeout decision is not logged
make_treasury_decision_logs_SilentHalt(cd, env, env_recipient, outcome) ==
    IF cd.market_report.kind \in {"None", "ORACLE_TIMEOUT"}
       \/ cd.carbon_audit.kind = "None" THEN <<>>
    ELSE Times(Entry("Manager"), 2)
         \o <<DecisionEntry(
                 make_treasury_decision(cd, env, env_recipient, outcome)
                     .treasury_decision.decision)>>

\* make_treasury_decision: the log_agent calls of each branch
make_treasury_decision_logs(cd, env, env_recipient, outcome) ==
    LET market_report == cd.market_report
        carbon_audit == cd.carbon_audit
        fdc_status == cd.fdc_verification_status
    IN IF market_report.kind = "None" \/ carbon_audit.kind = "None" THEN <<>>
       ELSE IF market_report.kind = "ORACLE_TIMEOUT" THEN
           <<DecisionEntry("HALT_ACTIVITY")>>
       ELSE Times(Entry("Manager"), 2) \o
           (IF ~carbon_audit.is_fdc_verified
               \/ fdc_status # "STATE_GREEN_VERIFIED" THEN
                (IF ~carbon_audit.is_fdc_verified
                 THEN <<Entry("Manager")>> ELSE <<>>)
                \o <<DecisionEntry("WAIT")>>
            ELSE IF carbon_audit.is_red THEN
                <<DecisionEntry("HALT_ACTIVITY")>>
            ELSE IF carbon_audit.is_green
                    /\ fdc_status = "STATE_GREEN_VERIFIED"
                    /\ market_report.xrp_usd < XRP_TARGET_PRICE THEN
                <<DecisionEntry("EXECUTE_BUY"), Entry("Manager")>>
                \o _execute_plasma_payout_logs(cd, env, env_recipient, outcome)
            ELSE <<DecisionEntry("WAIT")>>)

\* ------------------------------------------------------ the manager terminal
\* ManagerTerminal.make_decision.  The age of a reading whose timestamp is 0
\* is replaced by 999; timestamps here are positive.
make_decision(price_data, fdc_verification) ==
    IF price_data.none THEN
        [decision |-> "HALT_ACTIVITY",
         reason |-> "Failed to fetch price data from FTSO",
         xrp_price |-> None, carbon_intensity |-> None, fdc_verified |-> FALSE]
    ELSE IF price_data.xrp_age > 180 THEN
        [decision |-> "HALT_ACTIVITY", reason |-> "Oracle Timeout",
         xrp_price |-> price_data.xrp_price, carbon_intensity |-> None,
         fdc_verified |-> FALSE]
    ELSE IF fdc_verification.none THEN
        [decision |-> "WAIT", reason |-> "Failed to check FDC verification",
         xrp_price |-> price_data.xrp_price, carbon_intensity |-> None,
         fdc_verified |-> FALSE]
    ELSE IF ~fdc_verification.verified THEN
        [decision |-> "WAIT", reason |-> "FDC proof not verified",
         xrp_price |-> price_data.xrp_price,
         carbon_intensity |-> fdc_verification.intensity,
         fdc_verified |-> FALSE]
    ELSE IF fdc_verification.intensity = None
            \/ fdc_verification.intensity = 0 THEN
        [decision |-> "WAIT", reason |-> "No carbon intensity data available",
         xrp_price |-> price_data.xrp_price, carbon_intensity |-> None,
         fdc_verified |-> FALSE]
    ELSE IF fdc_verification.intensity >= 150 THEN
        [decision |-> "HALT_ACTIVITY", reason |-> "Energy is Red",
         xrp_price |-> price_data.xrp_price,
         carbon_intensity |-> fdc_verification.intensity,
         fdc_verified |-> TRUE]
    ELSE
        LET price_below_target == price_data.xrp_price < XRP_TARGET_PRICE
            carbon_below_threshold ==
                fdc_verification.is_low_carbon
                /\ fdc_verification.intensity < GREEN_THRESHOLD
        IN [decision |-> IF price_below_target /\ carbon_below_threshold
                         THEN "EXECUTE_BUY" ELSE "WAIT",
            reason |-> IF price_below_target /\ carbon_below_threshold
                       THEN "All conditions met"
                       ELSE IF ~price_below_target THEN "XRP Price >= target"
                       ELSE "Carbon >= threshold or not FDC verified",
            xrp_price |-> price_data.xrp_price,
            carbon_intensity |-> fdc_verification.intensity,
            fdc_verified |-> TRUE]

NoDecision ==
    [decision |-> "None", reason |-> "None", xrp_price |-> None,
     carbon_intensity |-> None, fdc_verified |-> FALSE]

\* ------------------------------------------------- the 3-agent swarm (agents.py)
NoCarbonData ==
    [none |-> TRUE, intensity |-> None, is_green |-> FALSE,
     is_fdc_verified |-> FALSE, latest_round_id |-> None,
     verification_status |-> "None"]

\* green_guardrail_agent: carbon_data is the adapter's dict, or an error entry
green_guardrail_agent(carbon_data) ==
    IF carbon_data.none THEN [NoCarbonData EXCEPT !.verification_status = "error"]
    ELSE carbon_data

\* supervisor_agent: market_data is the adapter's price dict or an error
\* entry (market_analyst_agent), carbon_data the guardrail's.  The BTC price
\* is not part of the price readings; it is positive whenever XRP's is.
supervisor_agent(market_data, carbon_data) ==
    IF market_data.none THEN "HOLD - Market data unavailable"
    ELSE IF carbon_data.verification_status = "error"
    THEN "HOLD - Carbon data unavailable"
    ELSE LET prices_valid == market_data.xrp_price > 0
             energy_green == carbon_data.is_green
         IN IF prices_valid /\ energy_green THEN "EXECUTE_TRADE"
            ELSE IF ~prices_valid THEN "HOLD - Invalid price data"
            ELSE "HOLD - Energy not green"

\* ------------------------------------------- the dashboard's bounded logs
MAX_AGENT_LOGS == 100
MAX_PLASMA_COMMANDS == 50

\* the last n elements of a list: lst[-n:]
LastN(lst, n) ==
    IF Len(lst) <= n THEN lst ELSE SubSeq(lst, Len(lst) - n + 1, Len(lst))

\* mutant: the truncation keeps the oldest entries, lst[:100]
log_agent_KeepsOldest(agent_logs_, log_entry) ==
    LET appended == Append(agent_logs_, log_entry)
    IN IF Len(appended) > MAX_AGENT_LOGS
       THEN SubSeq(appended, 1, MAX_AGENT_LOGS) ELSE appended

\* log_agent: append, then keep only the last 100 entries
log_agent(agent_logs_, log_entry) ==
    LET appended == Append(agent_logs_, log_entry)
    IN IF Len(appended) > MAX_AGENT_LOGS
       THEN LastN(appended, MAX_AGENT_LOGS) ELSE appended

\* log_plasma_command: append, then keep only the last 50 entries
log_plasma_command(plasma_commands_, command_entry) ==
    LET appended == Append(plasma_commands_, command_entry)
    IN IF Len(appended) > MAX_PLASMA_COMMANDS
       THEN LastN(appended, MAX_PLASMA_COMMANDS) ELSE appended

\* ------------------------------------------- the wallet endpoints
\* The JSON body of a wallet request, by what the handlers look at: whether
\* data.get("wallet_address", "") is a string at all (a missing key is the
\* empty string; with no body or another type .strip() raises), whether the
\* string has surrounding whitespace, and the text between it.
WalletInputs ==
    {[json |-> "nonstring", padded |-> FALSE, text |-> NoAddress]}
    \cup [json : {"string"}, padded : BOOLEAN,
          text : {NoAddress, GoodAddress, BadAddress, NonHexAddress,
                  DEFAULT_RECIPIENT}]
NoWalletInput == [json |-> "none", padded |-> FALSE, text |-> NoAddress]

\* what a request body carries: no string at all, an empty or blank string,
\* an address of 0x and 40 hex digits (possibly padded), anything else
InputClass(inp) ==
    IF inp.json = "none" THEN "none"
    ELSE IF inp.json = "nonstring" THEN "nonstring"
    ELSE IF inp.text = NoAddress THEN "empty"
    ELSE IF inp.text = GoodAddress THEN "valid"
    ELSE "malformed"

\* str.strip(): the text without the surrounding whitespace
strip(inp) == inp.text

\* re.match(r'^0x[a-fA-F0-9]{40}$', wallet_address) on a stripped string
AddressRegexMatch(a) == a.starts0x /\ a.len = 42 /\ a.hex

\* the entries the handlers and the payout append to the two logs
ServerEntry(agent_name, address) == [agent |-> agent_name, recipient |-> address]
CommandEntry(command_name, address) ==
    [command |-> command_name, recipient |-> address]

\* log_agent called once per entry, in order
RECURSIVE LogAll(_, _)
LogAll(agent_logs_, entries) ==
    IF entries = <<>> THEN agent_logs_
    ELSE LogAll(log_agent(agent_logs_, Head(entries)), Tail(entries))

Answer(code_, cd, cmds, logs) ==
    [code |-> code_, current_data |-> cd, plasma_commands |-> cmds,
     agent_logs |-> logs]

\* the validation and storing shared by the two wallet-setting handlers
SetWallet(cd, cmds, logs, inp, command_name, agent_name) ==
    IF inp.json = "nonstring" THEN Answer(500, cd, cmds, logs)
    ELSE LET wallet_address == strip(inp)
         IN IF wallet_address = NoAddress THEN Answer(400, cd, cmds, logs)
            ELSE IF ~AddressRegexMatch(wallet_address)
            THEN Answer(400, cd, cmds, logs)
            ELSE Answer(200,
                        [cd EXCEPT !.user_wallet_address = wallet_address],
                        log_plasma_command(
                            cmds, CommandEntry(command_name, wallet_address)),
                        log_agent(logs,
                                  ServerEntry(agent_name, wallet_address)))

\* mutant: the handler validates like send_plasma_reward (prefix and length)
save_user_wallet_PayoutCheck(cd, cmds, logs, inp) ==
    IF inp.json = "nonstring" THEN Answer(500, cd, cmds, logs)
    ELSE LET wallet_address == strip(inp)
         IN IF wallet_address = NoAddress THEN Answer(400, cd, cmds, logs)
            ELSE IF ~wallet_address.starts0x \/ wallet_address.len # 42
            THEN Answer(400, cd, cmds, logs)
            ELSE Answer(200,
                        [cd EXCEPT !.user_wallet_address = wallet_address],
                        log_plasma_command(
                            cmds, CommandEntry("set_wallet_address",
                                               wallet_address)),
                        log_agent(logs,
                                  ServerEntry("System", wallet_address)))

\* save_user_wallet (POST /api/user-wallet)
save_user_wallet(cd, cmds, logs, inp) ==
    SetWallet(cd, cmds, logs, inp, "set_wallet_address", "System")

\* admin_update_wallet (POST /api/admin/update-wallet)
admin_update_wallet(cd, cmds, logs, inp) ==
    SetWallet(cd, cmds, logs, inp, "admin_set_wallet", "Admin")

\* admin_reset_user (POST /api/admin/reset-user); credits and balance are
\* not part of the state
admin_reset_user(cd, cmds, logs) ==
    Answer(200, [cd EXCEPT !.user_wallet_address = NoAddress], cmds,
           log_agent(logs, ServerEntry("Admin", NoAddress)))

\* the environments a payout of the server is tried in: everything in place,
\* the payout module missing, GREEN_REWARD unset
ServerEnvs ==
    {e \in PlasmaEnvs : e.private_key_set /\ e.usdt_set /\ e.script_exists}

\* ------------------------------------- start / stop and the two loop threads
Threads == 1..MaxThreads

\* the program counters of a run_swarm_loop thread:
\*   unborn - not created yet          check - at the top of the while loop
\*   cycle  - inside run_veridifi_swarm sleep - in time.sleep(30)
\*   retry  - in time.sleep(5) after an exception
\*   dead   - left the loop by break
NoThreads == [t \in Threads |-> "unborn"]

NoReply == [op |-> "none", running_before |-> FALSE, components |-> {},
            status |-> "none", changed |-> FALSE]

\* mutant: the loops start a cycle whatever the flag says
loop_gate_Ignored(running) == TRUE

\* both loops: "if not agents_running: sleep; continue" at the top
loop_gate(running) == running

\* mutant: an exception of a swarm cycle ends the thread
swarm_except_pc_Dies == "dead"

\* run_swarm_loop: the except branch logs, clears swarm_running, sleeps 5 s
\* and stays in the loop
swarm_except_pc == "retry"

\* Thread.is_alive() of the thread swarm_thread refers to (0 = None)
is_alive(threads_, swarm_thread_) ==
    swarm_thread_ # 0 /\ threads_[swarm_thread_] \notin {"unborn", "dead"}

\* start_agents decides to create a run_swarm_loop thread
start_creates_thread(swarm_running_, swarm_thread_, threads_) ==
    ~swarm_running_ \/ (swarm_thread_ # 0 /\ ~is_alive(threads_, swarm_thread_))

\* start_agents: the new values of the globals and the response
start_agents(agents_running_, swarm_running_, swarm_thread_, threads_) ==
    LET data == IF ~agents_running_ THEN {"data collection"} ELSE {}
        create == start_creates_thread(swarm_running_, swarm_thread_, threads_)
        swarm == IF create THEN {"LangGraph agents"} ELSE {}
        started_components == data \cup swarm
    IN [agents_running |-> TRUE,
        swarm_running |-> swarm_running_,
        swarm_thread |-> IF create THEN swarm_thread_ + 1 ELSE swarm_thread_,
        threads |-> IF create
                    THEN [threads_ EXCEPT ![swarm_thread_ + 1] = "check"]
                    ELSE threads_,
        components |-> started_components,
        status |-> IF started_components # {} THEN "success"
                   ELSE "already_running"]

\* stop_agents: the new values of the globals and the response
stop_agents(agents_running_, swarm_running_) ==
    LET data == IF agents_running_ THEN {"data collection"} ELSE {}
        swarm == IF swarm_running_ THEN {"LangGraph agents"} ELSE {}
        stopped_components == data \cup swarm
    IN [agents_running |-> FALSE,
        swarm_running |-> FALSE,
        components |-> stopped_components,
        status |-> IF stopped_components # {} THEN "success"
                   ELSE "already_stopped"]

\* -------------------------------------------------------------------- state
VARIABLES
    pipeline,       \* which program this behaviour runs
    node,           \* graph runs: the node to execute next ("END" when done)
    state,          \* graph runs: the TreasuryState
    settle_count,   \* graph runs: executions of the settlement node this run
    upd_pc,         \* dashboard: position of update_data_loop in its cycle
    current_data,   \* dashboard: the global snapshot
    mr_src,         \* dashboard: the oracle answer current market_report was built from
    ca_src,         \* dashboard: the attestation reading current carbon_audit was built from
    decision_data,  \* terminal: the dict returned by the last make_decision
    carbon_data,    \* guardrail: AgentState["carbon_data"]
    price_in,       \* graphs, terminal: the oracle answer of the price fetch
    att_in,         \* graphs, terminal, guardrail: the contract state read
    handed,         \* the recipient argument of the payout subprocess run by the
                    \* latest settlement (NoAddress when none ran)
    cyc,            \* dashboard: what the current cycle of update_data_loop has
                    \* stored (market_report, carbon_audit), whether it decided,
                    \* the entries it appended to agent_logs and whether
                    \* admin_pay_user has called send_plasma_reward since it began
    agents_running, \* control: the global flag
    swarm_running,  \* control: the global flag
    swarm_thread,   \* control: the thread start_agents created last (0 = None)
    threads,        \* control: program counter of each run_swarm_loop thread
    update_thread,  \* control: program counter of the update_data_loop thread
    reply,          \* control: the latest start/stop request and its response
    agent_logs,     \* logs: current_data["agent_logs"], entries are call numbers
    plasma_commands,\* logs: current_data["plasma_commands"], likewise
    log_calls,      \* logs: calls of log_agent so far
    cmd_calls,      \* logs: calls of log_plasma_command so far
    request,        \* server: the latest wallet request, its answer, and how
                    \* many requests were answered and accepted so far
    payout,         \* server: position and locals of the update loop thread
                    \* inside _execute_plasma_payout
    loggers         \* log threads: position and locals of each thread
                    \* inside log_agent

vars == <<pipeline, node, state, settle_count, upd_pc, current_data, mr_src,
          ca_src, decision_data, carbon_data, price_in, att_in, handed, cyc,
          agents_running, swarm_running, swarm_thread, threads, update_thread,
          reply, agent_logs, plasma_commands, log_calls, cmd_calls, request,
          payout, loggers>>

ctl_vars == <<agents_running, swarm_running, swarm_thread, threads,
              update_thread, reply>>
log_vars == <<agent_logs, plasma_commands, log_calls, cmd_calls>>
run_vars == <<decision_data, carbon_data, price_in, att_in, handed>>
srv_vars == <<request, payout, loggers>>

graph_vars == <<node, state, settle_count>>
dash_vars == <<upd_pc, current_data, mr_src, ca_src, cyc>>

NoCycle == [market |-> FALSE, carbon |-> FALSE, decided |-> FALSE,
            logs |-> <<>>, admin_paid |-> FALSE]

Pipelines == {"veridifi", "legacy", "dashboard", "terminal", "guardrail",
              "control", "logs", "server", "logthreads"}

\* the threads that call log_agent
LogThreads == {"update_loop", "swarm", "handler"}

NoRequest ==
    [endpoint |-> "none", input |-> "none", code |-> 0, served |-> 0,
     accepted |-> 0, wallets_set |-> 0, stored |-> NoAddress]
NoPayoutRun ==
    [pc |-> "idle", runs |-> 0, env |-> CHOOSE e \in ServerEnvs : TRUE,
     env_recipient |-> NoAddress, outcome |-> "ok_hash",
     recipient |-> NoAddress, attempted |-> NoAddress, logged |-> {}]
NoLoggers == [t \in LogThreads |-> [pc |-> "call", slice |-> <<>>]]

EntryNode(p) ==
    IF p = "veridifi" THEN "scout"
    ELSE IF p = "legacy" THEN "oracle_scout"
    ELSE "none"

Init ==
    /\ pipeline \in Pipelines
    /\ node = EntryNode(pipeline)
    /\ state = initial_state
    /\ settle_count = 0
    /\ upd_pc = IF pipeline = "dashboard" THEN "fetch_market" ELSE "none"
    /\ current_data = initial_current_data
    /\ mr_src = NoPrice
    /\ ca_src = NoReading
    /\ decision_data = NoDecision
    /\ carbon_data = NoCarbonData
    /\ price_in = NoPrice
    /\ att_in = NoAtt
    /\ handed = NoAddress
    /\ cyc = NoCycle
    /\ agents_running = TRUE
    /\ swarm_running = FALSE
    /\ swarm_thread = 0
    /\ threads = NoThreads
    /\ update_thread = "check"
    /\ reply = NoReply
    /\ agent_logs = <<>>
    /\ plasma_commands = <<>>
    /\ log_calls = 0
    /\ cmd_calls = 0
    /\ request = NoRequest
    /\ payout = NoPayoutRun
    /\ loggers = NoLoggers

\* --------------------------------------------------- create_veridifi_swarm_graph
Scout ==
    /\ pipeline = "veridifi" /\ node = "scout"
    /\ \E w \in PriceWorlds :
        /\ price_in' = w
        /\ state' = scout_agent(state, get_latest_prices(w))
    /\ node' = "auditor"
    /\ UNCHANGED <<srv_vars, ctl_vars, log_vars, handed, pipeline, settle_count, dash_vars, decision_data,
                   carbon_data, att_in>>

Auditor ==
    /\ pipeline = "veridifi" /\ node = "auditor"
    /\ \E w \in AttWorlds :
        /\ att_in' = w
        /\ state' = auditor_agent(state, check_fdc_verification(w))
    /\ node' = "manager"
    /\ UNCHANGED <<srv_vars, ctl_vars, log_vars, handed, pipeline, settle_count, dash_vars, decision_data,
                   carbon_data, price_in>>

Manager ==
    /\ pipeline = "veridifi" /\ node = "manager"
    /\ state' = manager_agent(state)
    /\ node' = should_route_to_settlement(state')
    /\ UNCHANGED <<srv_vars, ctl_vars, log_vars, handed, pipeline, settle_count, dash_vars, decision_data,
                   carbon_data, price_in, att_in>>

Settlement ==
    /\ pipeline = "veridifi" /\ node = "settlement"
    /\ \E r \in EnvRecipients, o \in SubprocessOutcomes :
        /\ state' = settlement_agent(state, r, o)
        /\ handed' = settlement_agent_subprocess(r, o)
    /\ settle_count' = settle_count + 1
    /\ node' = "END"
    /\ UNCHANGED <<srv_vars, ctl_vars, log_vars, pipeline, dash_vars, decision_data, carbon_data, price_in,
                   att_in>>

\* ---------------------------------------------------- create_green_treasury_graph
OracleScout ==
    /\ pipeline = "legacy" /\ node = "oracle_scout"
    /\ \E w \in PriceWorlds :
        /\ price_in' = w
        /\ state' = oracle_scout_agent(state, get_latest_prices(w))
    /\ node' = "environmental_auditor"
    /\ UNCHANGED <<srv_vars, ctl_vars, log_vars, handed, pipeline, settle_count, dash_vars, decision_data,
                   carbon_data, att_in>>

EnvironmentalAuditor ==
    /\ pipeline = "legacy" /\ node = "environmental_auditor"
    /\ \E w \in AttWorlds :
        /\ att_in' = w
        /\ state' = environmental_auditor_agent(state, check_fdc_verification(w))
    /\ node' = should_route_to_error_halt(state')
    /\ UNCHANGED <<srv_vars, ctl_vars, log_vars, handed, pipeline, settle_count, dash_vars, decision_data,
                   carbon_data, price_in>>

ErrorHalt ==
    /\ pipeline = "legacy" /\ node = "error_halt"
    /\ state' = error_halt_agent(state)
    /\ node' = "END"
    /\ UNCHANGED <<srv_vars, ctl_vars, log_vars, handed, pipeline, settle_count, dash_vars, decision_data,
                   carbon_data, price_in, att_in>>

TreasuryManager ==
    /\ pipeline = "legacy" /\ node = "treasury_manager"
    /\ state' = treasury_manager_agent(state)
    /\ node' = should_continue_to_settlement(state')
    /\ UNCHANGED <<srv_vars, ctl_vars, log_vars, handed, pipeline, settle_count, dash_vars, decision_data,
                   carbon_data, price_in, att_in>>

SettlementOld ==
    /\ pipeline = "legacy" /\ node = "settlement"
    /\ \E env \in PlasmaEnvs, r \in EnvRecipients, o \in SubprocessOutcomes :
        /\ state' = settlement_agent_old(state, env, r, o)
        /\ handed' = settlement_agent_old_subprocess(state, env, r, o)
    /\ settle_count' = settle_count + 1
    /\ node' = "END"
    /\ UNCHANGED <<srv_vars, ctl_vars, log_vars, pipeline, dash_vars, decision_data, carbon_data, price_in,
                   att_in>>

\* the next run of either graph starts from a fresh initial_state
NewRun ==
    /\ pipeline \in {"veridifi", "legacy"} /\ node = "END"
    /\ node' = EntryNode(pipeline)
    /\ state' = initial_state
    /\ settle_count' = 0
    /\ price_in' = NoPrice
    /\ att_in' = NoAtt
    /\ handed' = NoAddress
    /\ UNCHANGED <<srv_vars, ctl_vars, log_vars, pipeline, dash_vars, decision_data, carbon_data>>

\* ------------------------------------------------------------ update_data_loop
\* market_report = fetch_market_data(); stored only when truthy
UpdateFetchMarket ==
    /\ pipeline = "dashboard" /\ upd_pc = "fetch_market"
    /\ \E w \in PriceWorlds :
        LET market_report == fetch_market_data(get_latest_prices(w))
        IN /\ IF market_report.kind # "None"
              THEN /\ current_data' =
                          [current_data EXCEPT !.market_report = market_report]
                   /\ mr_src' = w
              ELSE UNCHANGED <<current_data, mr_src>>
           /\ cyc' = [NoCycle EXCEPT
                          !.market = market_report.kind # "None",
                          !.logs = fetch_market_data_logs(get_latest_prices(w))]
    /\ upd_pc' = "fetch_carbon"
    /\ handed' = NoAddress
    /\ UNCHANGED <<srv_vars, ctl_vars, log_vars, pipeline, graph_vars, ca_src, decision_data, carbon_data,
                   price_in, att_in>>

\* the carbon fetch runs only in a cycle whose clock second is a multiple of 10
UpdateFetchCarbon ==
    /\ pipeline = "dashboard" /\ upd_pc = "fetch_carbon"
    /\ \/ UNCHANGED <<current_data, ca_src, cyc>>
       \/ \E w \in AttWorlds :
          \E api \in ApiInputs(check_fdc_verification(w)) :
            LET fdc_verification == check_fdc_verification(w)
                carbon_audit == fetch_carbon_data(fdc_verification, api)
            IN /\ ca_src' = AttestationReading(w)
               /\ cyc' = [cyc EXCEPT
                              !.carbon = TRUE,
                              !.logs = @ \o fetch_carbon_data_logs(
                                                fdc_verification, api)]
               /\ current_data' =
                      [current_data EXCEPT
                          !.carbon_audit = carbon_audit,
                          !.fdc_verification_status =
                              LoopVerificationStatus(carbon_audit)]
    /\ upd_pc' = "decide"
    /\ UNCHANGED <<srv_vars, ctl_vars, log_vars, handed, pipeline, graph_vars, mr_src, decision_data, carbon_data,
                   price_in, att_in>>

UpdateDecide ==
    /\ pipeline = "dashboard" /\ upd_pc = "decide"
    /\ \E inp \in PayoutInputs(current_data) :
        IF current_data.market_report.kind # "None"
           /\ current_data.carbon_audit.kind # "None"
        THEN LET env == inp[1]
                 r == inp[2]
                 o == inp[3]
                 decided == make_treasury_decision(current_data, env, r, o)
             IN /\ current_data' = decided
                /\ handed' =
                     IF decided.treasury_decision.decision = "EXECUTE_BUY"
                     THEN _execute_plasma_payout_subprocess(
                              current_data, env, r, o)
                     ELSE NoAddress
                /\ cyc' = [cyc EXCEPT
                               !.decided = TRUE,
                               !.logs = @ \o make_treasury_decision_logs(
                                                 current_data, env, r, o)]
        ELSE UNCHANGED <<current_data, handed, cyc>>
    /\ upd_pc' = "fetch_market"
    /\ UNCHANGED <<srv_vars, ctl_vars, log_vars, pipeline, graph_vars, mr_src, ca_src, decision_data,
                   carbon_data, price_in, att_in>>

\* a POST to /api/admin/pay-user, at any point of the loop's cycle (the first
\* one of a cycle that reaches send_plasma_reward is the one recorded)
AdminPayUser ==
    /\ pipeline = "dashboard" /\ ~cyc.admin_paid
    /\ \E inp \in AdminInputs :
          LET r == admin_pay_user(current_data, inp[1], inp[2], inp[3], inp[4])
          IN cyc' = [cyc EXCEPT !.admin_paid = @ \/ r.called]
    /\ UNCHANGED <<srv_vars, ctl_vars, log_vars, handed, pipeline, graph_vars, upd_pc,
                   current_data, mr_src, ca_src, decision_data, carbon_data,
                   price_in, att_in>>

\* ------------------------------------------------------------ manager terminal
\* one 'decide' command (or run_single_decision)
TerminalDecide ==
    /\ pipeline = "terminal" /\ decision_data = NoDecision
    /\ \E pw \in PriceWorlds, aw \in AttWorlds :
        /\ price_in' = pw
        /\ att_in' = aw
        /\ decision_data' =
               make_decision(get_latest_prices(pw), check_fdc_verification(aw))
    /\ UNCHANGED <<srv_vars, ctl_vars, log_vars, handed, pipeline, graph_vars, dash_vars, carbon_data>>

\* the terminal is back at its prompt; the next command evaluates afresh
TerminalPrompt ==
    /\ pipeline = "terminal" /\ decision_data # NoDecision
    /\ decision_data' = NoDecision
    /\ price_in' = NoPrice
    /\ att_in' = NoAtt
    /\ UNCHANGED <<srv_vars, ctl_vars, log_vars, handed, pipeline, graph_vars, dash_vars,
                   carbon_data>>

\* ------------------------------------------------------------------- agents.py
\* green_guardrail_agent of a run of the 3-agent swarm; the run starts with
\* no decision
GreenGuardrail ==
    /\ pipeline = "guardrail"
    /\ \E w \in AttWorlds :
        /\ att_in' = w
        /\ carbon_data' = green_guardrail_agent(get_carbon_intensity(w))
    /\ decision_data' = NoDecision
    /\ price_in' = NoPrice
    /\ UNCHANGED <<srv_vars, ctl_vars, log_vars, handed, pipeline, graph_vars, dash_vars>>

\* supervisor_agent, on the market analyst's and the guardrail's data
Supervisor ==
    /\ pipeline = "guardrail"
    /\ carbon_data # NoCarbonData /\ decision_data = NoDecision
    /\ \E pw \in PriceWorlds :
        /\ price_in' = pw
        /\ decision_data' =
               [NoDecision EXCEPT !.decision =
                    supervisor_agent(get_latest_prices(pw), carbon_data)]
    /\ UNCHANGED <<srv_vars, ctl_vars, log_vars, handed, pipeline, graph_vars, dash_vars,
                   carbon_data, att_in>>

\* ------------------------------------ /api/agents/start, /api/agents/stop
\* start_agents; disabled when it would create more than MaxThreads threads
StartAgents ==
    /\ pipeline = "control"
    /\ LET r == start_agents(agents_running, swarm_running, swarm_thread,
                             threads)
       IN /\ r.swarm_thread <= MaxThreads
          /\ agents_running' = r.agents_running
          /\ swarm_running' = r.swarm_running
          /\ swarm_thread' = r.swarm_thread
          /\ threads' = r.threads
          /\ reply' = [op |-> "start", running_before |-> agents_running,
                       components |-> r.components, status |-> r.status,
                       changed |-> \/ r.agents_running # agents_running
                                   \/ r.swarm_thread # swarm_thread]
    /\ UNCHANGED <<srv_vars, log_vars, pipeline, graph_vars, dash_vars, run_vars,
                   update_thread>>

StopAgents ==
    /\ pipeline = "control"
    /\ LET r == stop_agents(agents_running, swarm_running)
       IN /\ agents_running' = r.agents_running
          /\ swarm_running' = r.swarm_running
          /\ reply' = [op |-> "stop", running_before |-> agents_running,
                       components |-> r.components, status |-> r.status,
                       changed |-> \/ r.agents_running # agents_running
                                   \/ r.swarm_running # swarm_running]
    /\ UNCHANGED <<srv_vars, log_vars, pipeline, graph_vars, dash_vars, run_vars,
                   swarm_thread, threads, update_thread>>

\* ------------------------------------------- update_data_loop as a thread
\* the flag is read at the top of the loop; a cycle starts when it is set
UpdateLoopBegin ==
    /\ pipeline = "control" /\ update_thread = "check"
    /\ loop_gate(agents_running)
    /\ update_thread' = "cycle"
    /\ UNCHANGED <<srv_vars, log_vars, pipeline, graph_vars, dash_vars, run_vars,
                   agents_running, swarm_running, swarm_thread, threads, reply>>

\* the cycle completes, or raises and is caught; then time.sleep(1.8)
UpdateLoopCycle ==
    /\ pipeline = "control" /\ update_thread = "cycle"
    /\ update_thread' = "sleep"
    /\ UNCHANGED <<srv_vars, log_vars, pipeline, graph_vars, dash_vars, run_vars,
                   agents_running, swarm_running, swarm_thread, threads, reply>>

UpdateLoopWake ==
    /\ pipeline = "control" /\ update_thread = "sleep"
    /\ update_thread' = "check"
    /\ UNCHANGED <<srv_vars, log_vars, pipeline, graph_vars, dash_vars, run_vars,
                   agents_running, swarm_running, swarm_thread, threads, reply>>

\* ------------------------------------------------- run_swarm_loop threads
SwarmBegin(t) ==
    /\ pipeline = "control" /\ threads[t] = "check"
    /\ loop_gate(agents_running)
    /\ swarm_running' = TRUE
    /\ threads' = [threads EXCEPT ![t] = "cycle"]
    /\ UNCHANGED <<srv_vars, log_vars, pipeline, graph_vars, dash_vars, run_vars,
                   agents_running, swarm_thread, update_thread, reply>>

\* run_veridifi_swarm returned: sleep 30 s if still running, else leave
SwarmCycleDone(t) ==
    /\ pipeline = "control" /\ threads[t] = "cycle"
    /\ IF agents_running
       THEN /\ threads' = [threads EXCEPT ![t] = "sleep"]
            /\ UNCHANGED swarm_running
       ELSE /\ threads' = [threads EXCEPT ![t] = "dead"]
            /\ swarm_running' = FALSE
    /\ UNCHANGED <<srv_vars, log_vars, pipeline, graph_vars, dash_vars, run_vars,
                   agents_running, swarm_thread, update_thread, reply>>

\* the import or run_veridifi_swarm raised
SwarmCycleRaise(t) ==
    /\ pipeline = "control" /\ threads[t] = "cycle"
    /\ swarm_running' = FALSE
    /\ threads' = [threads EXCEPT ![t] = swarm_except_pc]
    /\ UNCHANGED <<srv_vars, log_vars, pipeline, graph_vars, dash_vars, run_vars,
                   agents_running, swarm_thread, update_thread, reply>>

SwarmWake(t) ==
    /\ pipeline = "control" /\ threads[t] \in {"sleep", "retry"}
    /\ threads' = [threads EXCEPT ![t] = "check"]
    /\ UNCHANGED <<srv_vars, log_vars, pipeline, graph_vars, dash_vars, run_vars,
                   agents_running, swarm_running, swarm_thread, update_thread,
                   reply>>

\* --------------------------------------------------------- the bounded logs
\* a call of log_agent; the entry is the number of the call
LogAgent ==
    /\ pipeline = "logs" /\ log_calls < MaxLogCalls
    /\ log_calls' = log_calls + 1
    /\ agent_logs' = log_agent(agent_logs, log_calls + 1)
    /\ UNCHANGED <<srv_vars, ctl_vars, pipeline, graph_vars, dash_vars, run_vars,
                   plasma_commands, cmd_calls>>

\* a call of log_plasma_command; the entry is the number of the call
LogPlasmaCommand ==
    /\ pipeline = "logs" /\ cmd_calls < MaxCmdCalls
    /\ cmd_calls' = cmd_calls + 1
    /\ plasma_commands' = log_plasma_command(plasma_commands, cmd_calls + 1)
    /\ UNCHANGED <<srv_vars, ctl_vars, pipeline, graph_vars, dash_vars, run_vars,
                   agent_logs, log_calls>>

\* ------------------------------------ the server: wallet requests and a payout
\* The Flask handlers run in their own threads next to the update loop.
\* what a handler's answer does to the state, and the record of the request
Answered(endpoint_, inp, r) ==
    /\ current_data' = r.current_data
    /\ plasma_commands' = r.plasma_commands
    /\ agent_logs' = r.agent_logs
    /\ request' =
           [endpoint |-> endpoint_, input |-> InputClass(inp), code |-> r.code,
            served |-> request.served + 1,
            accepted |-> request.accepted + (IF r.code = 200 THEN 1 ELSE 0),
            wallets_set |-> request.wallets_set
                            + (IF r.code = 200 /\ endpoint_ # "reset-user"
                               THEN 1 ELSE 0),
            stored |-> IF r.code # 200 THEN request.stored
                       ELSE IF endpoint_ = "reset-user" THEN NoAddress
                       ELSE strip(inp)]
    /\ UNCHANGED <<ctl_vars, pipeline, graph_vars, run_vars, upd_pc, mr_src,
                   ca_src, cyc, log_calls, cmd_calls, payout, loggers>>

SaveUserWallet ==
    /\ pipeline = "server" /\ request.served + payout.runs < MaxServerOps
    /\ \E inp \in WalletInputs :
           Answered("user-wallet", inp,
                    save_user_wallet(current_data, plasma_commands,
                                     agent_logs, inp))

AdminUpdateWallet ==
    /\ pipeline = "server" /\ request.served + payout.runs < MaxServerOps
    /\ \E inp \in WalletInputs :
           Answered("update-wallet", inp,
                    admin_update_wallet(current_data, plasma_commands,
                                        agent_logs, inp))

AdminResetUser ==
    /\ pipeline = "server" /\ request.served + payout.runs < MaxServerOps
    /\ Answered("reset-user", NoWalletInput,
                admin_reset_user(current_data, plasma_commands, agent_logs))

\* _execute_plasma_payout up to the recipient's log lines (lines 269-297):
\* the setup check, the read of the recipient, the first three entries
PayoutStart ==
    /\ pipeline = "server" /\ payout.pc \in {"idle", "done"}
    /\ request.served + payout.runs < MaxServerOps
    /\ \E env \in ServerEnvs, r \in {NoAddress, GoodAddress} :
       \E o \in IF env.module_ok /\ check_plasma_setup(env).configured
                THEN {"ok_hash", "nonzero"} ELSE {"ok_hash"} :
        LET run == [NoPayoutRun EXCEPT !.runs = payout.runs + 1, !.env = env,
                                       !.env_recipient = r, !.outcome = o]
        IN IF ~env.module_ok THEN
               /\ payout' = [run EXCEPT !.pc = "mock"]
               /\ agent_logs' =
                      log_agent(agent_logs, ServerEntry("Settlement", NoAddress))
               /\ plasma_commands' =
                      log_plasma_command(
                          plasma_commands,
                          CommandEntry("import plasma_payout", NoAddress))
           ELSE IF ~check_plasma_setup(env).configured THEN
               /\ payout' = [run EXCEPT !.pc = "mock"]
               /\ agent_logs' =
                      LogAll(agent_logs,
                             <<ServerEntry("Settlement", NoAddress),
                               ServerEntry("Settlement", NoAddress)>>)
               /\ plasma_commands' =
                      log_plasma_command(
                          plasma_commands,
                          CommandEntry("check_plasma_setup", NoAddress))
           ELSE
               LET recipient == DashboardRecipient(current_data, r)
               IN /\ payout' = [run EXCEPT !.pc = "send",
                                           !.recipient = recipient,
                                           !.logged = {recipient}]
                  /\ agent_logs' =
                         LogAll(agent_logs,
                                <<ServerEntry("Settlement", NoAddress),
                                  ServerEntry("Settlement", recipient),
                                  ServerEntry("Settlement", NoAddress)>>)
                  /\ UNCHANGED plasma_commands
    /\ UNCHANGED <<ctl_vars, pipeline, graph_vars, dash_vars, run_vars,
                   log_calls, cmd_calls, request, loggers>>

\* _execute_plasma_payout from the wallet note to the end of its own
\* branches (lines 299-351): the note, the command entry, send_plasma_reward
\* and the handling of its result; a failure leaves the mock payout to do
PayoutSend ==
    /\ pipeline = "server" /\ payout.pc = "send"
    /\ LET recipient == payout.recipient
           note == IF current_data.user_wallet_address # NoAddress
                   THEN ServerEntry("Settlement", recipient)
                   ELSE ServerEntry("Settlement", NoAddress)
           result == send_plasma_reward(recipient, payout.env, payout.outcome)
           sending == CommandEntry("send_plasma_reward", recipient)
       IN IF result.success THEN
              /\ agent_logs' =
                     LogAll(agent_logs,
                            <<note>> \o Times(ServerEntry("Settlement",
                                                          NoAddress), 4))
              /\ plasma_commands' =
                     log_plasma_command(
                         log_plasma_command(plasma_commands, sending), sending)
              /\ current_data' =
                     [current_data EXCEPT !.settlement_status =
                          [kind |-> "set", executed |-> TRUE,
                           status |-> "COMPLETED",
                           payment_type |-> "Green Reward (Plasma)",
                           recipient |-> recipient,
                           has_tx |-> result.has_tx]]
              /\ payout' = [payout EXCEPT !.pc = "done",
                                          !.attempted = recipient,
                                          !.logged = @ \cup {recipient}]
          ELSE
              /\ agent_logs' =
                     LogAll(agent_logs,
                            <<note>> \o Times(ServerEntry("Settlement",
                                                          NoAddress), 2))
              /\ plasma_commands' =
                     log_plasma_command(
                         log_plasma_command(plasma_commands, sending), sending)
              /\ UNCHANGED current_data
              /\ payout' = [payout EXCEPT !.pc = "mock",
                                          !.attempted = recipient,
                                          !.logged = @ \cup {recipient}]
    /\ UNCHANGED <<ctl_vars, pipeline, graph_vars, run_vars, upd_pc, mr_src,
                   ca_src, cyc, log_calls, cmd_calls, request, loggers>>

\* _mock_plasma_payout (lines 371-408): reads the recipient again
PayoutMock ==
    /\ pipeline = "server" /\ payout.pc = "mock"
    /\ LET recipient == DashboardRecipient(current_data, payout.env_recipient)
           error_msg == payout.attempted # NoAddress
       IN /\ agent_logs' =
                 LogAll(agent_logs,
                        <<ServerEntry("Settlement", recipient)>>
                        \o Times(ServerEntry("Settlement", NoAddress),
                                 IF error_msg THEN 3 ELSE 2))
          /\ plasma_commands' =
                 log_plasma_command(
                     plasma_commands,
                     CommandEntry("send_plasma_reward (mock)", recipient))
          /\ current_data' =
                 _mock_plasma_payout(current_data, payout.env_recipient)
          /\ payout' = [payout EXCEPT !.pc = "done",
                                      !.logged = @ \cup {recipient}]
    /\ UNCHANGED <<ctl_vars, pipeline, graph_vars, run_vars, upd_pc, mr_src,
                   ca_src, cyc, log_calls, cmd_calls, request, loggers>>

\* -------------------------------------------- log_agent called by several threads
\* current_data["agent_logs"].append(log_entry); the entry is the call's number
LogAppend(t) ==
    /\ pipeline = "logthreads" /\ loggers[t].pc = "call"
    /\ log_calls < MaxLogCalls
    /\ log_calls' = log_calls + 1
    /\ agent_logs' = Append(agent_logs, log_calls + 1)
    /\ loggers' = [loggers EXCEPT ![t].pc = "check"]
    /\ UNCHANGED <<ctl_vars, pipeline, graph_vars, dash_vars, run_vars,
                   plasma_commands, cmd_calls, request, payout>>

\* if len(...) > 100: the right-hand side current_data["agent_logs"][-100:]
\* is evaluated to a new list
LogSlice(t) ==
    /\ pipeline = "logthreads" /\ loggers[t].pc = "check"
    /\ loggers' =
           IF Len(agent_logs) > MAX_AGENT_LOGS
           THEN [loggers EXCEPT ![t] =
                     [pc |-> "store",
                      slice |-> LastN(agent_logs, MAX_AGENT_LOGS)]]
           ELSE [loggers EXCEPT ![t].pc = "call"]
    /\ UNCHANGED <<ctl_vars, log_vars, pipeline, graph_vars, dash_vars,
                   run_vars, request, payout>>

\* current_data["agent_logs"] = <the new list>
LogStore(t) ==
    /\ pipeline = "logthreads" /\ loggers[t].pc = "store"
    /\ agent_logs' = loggers[t].slice
    /\ loggers' = [loggers EXCEPT ![t] = [pc |-> "call", slice |-> <<>>]]
    /\ UNCHANGED <<ctl_vars, pipeline, graph_vars, dash_vars, run_vars,
                   plasma_commands, log_calls, cmd_calls, request, payout>>

UpdateLoopStep == UpdateLoopBegin \/ UpdateLoopCycle \/ UpdateLoopWake
SwarmStep(t) ==
    SwarmBegin(t) \/ SwarmCycleDone(t) \/ SwarmCycleRaise(t) \/ SwarmWake(t)

ControlNext ==
    \/ StartAgents \/ StopAgents
    \/ UpdateLoopBegin \/ UpdateLoopCycle \/ UpdateLoopWake
    \/ \E t \in Threads : SwarmBegin(t)
    \/ \E t \in Threads : SwarmCycleDone(t)
    \/ \E t \in Threads : SwarmCycleRaise(t)
    \/ \E t \in Threads : SwarmWake(t)

Next ==
    \/ ControlNext
    \/ LogAgent \/ LogPlasmaCommand
    \/ Scout \/ Auditor \/ Manager \/ Settlement
    \/ OracleScout \/ EnvironmentalAuditor \/ ErrorHalt \/ TreasuryManager
    \/ SettlementOld \/ NewRun
    \/ UpdateFetchMarket \/ UpdateFetchCarbon \/ UpdateDecide
    \/ AdminPayUser
    \/ TerminalDecide \/ TerminalPrompt \/ GreenGuardrail \/ Supervisor
    \/ SaveUserWallet \/ AdminUpdateWallet \/ AdminResetUser
    \/ PayoutStart \/ PayoutSend \/ PayoutMock
    \/ \E t \in LogThreads : LogAppend(t)
    \/ \E t \in LogThreads : LogSlice(t)
    \/ \E t \in LogThreads : LogStore(t)

Spec == Init /\ [][Next]_vars

\* the two swarm graphs alone: app.invoke runs the node it is at to its
\* return (every feed call returns or raises, the payout subprocess has a
\* timeout), so a node that can run eventually does
GraphStep ==
    \/ Scout \/ Auditor \/ Manager \/ Settlement
    \/ OracleScout \/ EnvironmentalAuditor \/ ErrorHalt \/ TreasuryManager
    \/ SettlementOld

GraphNext == GraphStep \/ NewRun

GraphInit == Init /\ pipeline \in {"veridifi", "legacy"}

GraphSpec == GraphInit /\ [][GraphNext]_vars /\ WF_vars(GraphStep)

\* the dashboard process alone, its threads scheduled fairly: a thread that
\* can take a step eventually takes one (sleeps end, calls return)
ControlInit == Init /\ pipeline = "control"

LiveSpec ==
    /\ ControlInit /\ [][ControlNext]_vars
    /\ WF_vars(UpdateLoopStep)
    /\ \A t \in Threads : WF_vars(SwarmStep(t))

\* ================================================================== claims
\* the run of a graph has reached END
RunDone == pipeline \in {"veridifi", "legacy"} /\ node = "END"
\* the dashboard loop has just finished the decide step of a cycle
CycleDone == pipeline = "dashboard" /\ upd_pc = "fetch_market"

\* a reading whose attestation is verified and green
GreenReading(r) ==
    ~r.failed /\ r.round > 0 /\ r.intensity > 0 /\ r.intensity < 50
\* an oracle answer whose XRP price is fresh and below target
FreshCheapXrp(w) ==
    w.ok /\ w.xrp_age <= 180 /\ w.xrp_price < XRP_TARGET_PRICE

\* C1: in every decision path the verdict EXECUTE_BUY is produced only from
\* inputs with a verified attestation (round id > 0, intensity > 0),
\* intensity < 50, an XRP reading at most 180 s old when fetched, and a
\* price below 1.10.
C1_BuyOnlyOnVerifiedGreenFreshCheap ==
    /\ (pipeline \in {"veridifi", "legacy"}
        /\ state.treasury_decision = "EXECUTE_BUY")
       => FreshCheapXrp(price_in) /\ GreenReading(AttestationReading(att_in))
    /\ (CycleDone /\ current_data.treasury_decision.decision = "EXECUTE_BUY")
       => FreshCheapXrp(mr_src) /\ GreenReading(ca_src)
    /\ (pipeline = "terminal" /\ decision_data.decision = "EXECUTE_BUY")
       => FreshCheapXrp(price_in) /\ GreenReading(AttestationReading(att_in))

C1_Witness ==
    /\ CycleDone
    /\ current_data.treasury_decision.decision = "EXECUTE_BUY"
    /\ current_data.settlement_status.executed

\* reasons that name the oracle timeout or the unavailable price feed
OracleReasons ==
    {"Oracle Timeout: FTSO data is stale", "Oracle Timeout",
     "Failed to fetch price data from FTSO",
     "Missing required data: Market Report or Carbon Audit unavailable"}

\* C2: whenever the XRP reading is older than 180 s or the price feed
\* failed, the final treasury_decision of a run of either graph is
\* HALT_ACTIVITY with an oracle-timeout/unavailable reason, whatever the
\* attestation.
C2_StaleOrFailedPriceHalts ==
    (RunDone /\ (~price_in.ok \/ price_in.xrp_age > ORACLE_TIMEOUT_SECONDS))
    => /\ state.treasury_decision = "HALT_ACTIVITY"
       /\ state.decision_reason \in OracleReasons

\* C3: in each run of either graph the settlement node executes exactly once
\* if the run's treasury_decision is EXECUTE_BUY and not at all otherwise;
\* the router sends the run to settlement exactly when the manager decided
\* EXECUTE_BUY.
C3_SettlementIffExecuteBuy ==
    pipeline \in {"veridifi", "legacy"} =>
        /\ settle_count <= 1
        /\ node = "settlement"
           => state.treasury_decision = "EXECUTE_BUY" /\ settle_count = 0
        /\ node = "END"
           => settle_count =
                  IF state.treasury_decision = "EXECUTE_BUY" THEN 1 ELSE 0

C3_Witness ==
    /\ pipeline = "veridifi" /\ node = "END"
    /\ state.treasury_decision = "EXECUTE_BUY" /\ settle_count = 1

\* an oracle answer all of whose timestamps (BTC and XRP) are fresh
FreshAll(w) == w.ok /\ w.xrp_age <= 180 /\ w.btc_age <= 180
\* a reading that is unverified or failed: no round, or no intensity
UnverifiedReading(r) == r.failed \/ r.round = 0 \/ r.intensity = 0
\* a reading with a round and an intensity
VerifiedReading(r) == ~r.failed /\ r.round > 0 /\ r.intensity > 0

\* C4: with a fresh price, status VERIFIED and intensity >= 150, the
\* decision of treasury_manager_agent and of make_treasury_decision is
\* HALT_ACTIVITY with the high-carbon reason.
C4_VerifiedHighCarbonHalts ==
    /\ (pipeline = "legacy" /\ node = "END"
        /\ state.market_report.kind = "VALID"
        /\ state.fdc_verification_status = "VERIFIED"
        /\ state.carbon_audit.intensity >= AMBER_THRESHOLD)
       => /\ state.treasury_decision = "HALT_ACTIVITY"
          /\ state.decision_reason = "Energy is Red"
    /\ (CycleDone
        /\ current_data.market_report.kind = "VALID"
        /\ current_data.fdc_verification_status = "VERIFIED"
        /\ current_data.carbon_audit.intensity >= AMBER_THRESHOLD)
       => current_data.treasury_decision =
              [decision |-> "HALT_ACTIVITY", reason |-> "Energy is Red"]

\* reasons that say the carbon data is not verified / attested
UnverifiedReasons ==
    {"FDC proof not verified", "FDC verification pending",
     "FDC proof not valid (carbon >= threshold)", "FDC proof status unknown",
     "Failed to check FDC verification", "No carbon intensity data available"}

\* C5: with a fresh price and an unverified or failed attestation, the
\* final decision of a run of either graph and of a dashboard cycle is WAIT
\* with a reason saying the data is not verified.
C5_UnverifiedWaits ==
    /\ (RunDone /\ FreshAll(price_in)
        /\ UnverifiedReading(AttestationReading(att_in)))
       => /\ state.treasury_decision = "WAIT"
          /\ state.decision_reason \in UnverifiedReasons
    /\ (CycleDone /\ FreshAll(mr_src)
        /\ current_data.carbon_audit.kind # "None"
        /\ UnverifiedReading(ca_src))
       => /\ current_data.treasury_decision.decision = "WAIT"
          /\ current_data.treasury_decision.reason \in UnverifiedReasons

\* the four decision paths, once they have decided
ManagerDone == pipeline = "veridifi" /\ node \in {"settlement", "END"}
LegacyDone == pipeline = "legacy" /\ node \in {"settlement", "END"}

C7_RoundZeroUnverified ==
    /\ (pipeline = "veridifi" /\ node \in {"manager", "settlement", "END"}
        /\ att_in.core /\ att_in.round = 0)
       => state.fdc_verification_status = "UNVERIFIED"
    /\ (pipeline = "guardrail" /\ att_in.core /\ att_in.round = 0
        /\ ~carbon_data.none)
       => carbon_data.verification_status = "UNVERIFIED"

\* the status the Verification Gate is to give a verified reading
GateStatus(intensity) ==
    IF intensity < 50 THEN "STATE_GREEN_VERIFIED" ELSE "VERIFIED"

\* C8: for a reading with round id > 0 and intensity > 0 the gate yields
\* STATE_GREEN_VERIFIED if intensity < 50 and VERIFIED if intensity >= 50
\* (auditor_agent, environmental_auditor_agent, update_data_loop).
C8_VerifiedReadingStatus ==
    /\ (pipeline = "veridifi" /\ node \in {"manager", "settlement", "END"}
        /\ VerifiedReading(AttestationReading(att_in)))
       => state.fdc_verification_status =
              GateStatus(AttestationReading(att_in).intensity)
    /\ (pipeline = "legacy"
        /\ node \in {"treasury_manager", "error_halt", "settlement", "END"}
        /\ VerifiedReading(AttestationReading(att_in)))
       => state.fdc_verification_status =
              GateStatus(AttestationReading(att_in).intensity)
    /\ (pipeline = "dashboard" /\ VerifiedReading(ca_src))
       => current_data.fdc_verification_status = GateStatus(ca_src.intensity)

C8_Witness ==
    /\ pipeline = "dashboard"
    /\ VerifiedReading(ca_src) /\ ca_src.intensity = GREEN_THRESHOLD
    /\ current_data.fdc_verification_status = "VERIFIED"
    /\ current_data.carbon_audit.is_fdc_verified

\* a reading with a round id but intensity 0
ZeroIntensityReading(r) == ~r.failed /\ r.round > 0 /\ r.intensity = 0

C10_FeedFailureIsError ==
    /\ (pipeline = "veridifi" /\ node \in {"manager", "settlement", "END"}
        /\ AttestationReading(att_in).failed)
       => state.fdc_verification_status = "ERROR"
    /\ (pipeline = "legacy"
        /\ node \in {"treasury_manager", "error_halt", "settlement", "END"}
        /\ AttestationReading(att_in).failed)
       => state.fdc_verification_status = "ERROR"

\* a settlement node of a graph has run
SettlementRan == pipeline \in {"veridifi", "legacy"} /\ node = "END"
                 /\ settle_count = 1
\* a dashboard cycle has decided EXECUTE_BUY and so called _execute_plasma_payout
PayoutRan == CycleDone /\ cyc.decided
             /\ current_data.treasury_decision.decision = "EXECUTE_BUY"

\* C11: whatever the payout does (success, non-zero exit, timeout, missing
\* configuration, missing module, exception), settlement_agent,
\* settlement_agent_old and _execute_plasma_payout complete and leave a
\* settlement result in the state.
C11_SettlementAlwaysLeavesResult ==
    /\ (SettlementRan /\ pipeline = "veridifi")
       => /\ state.payout_status.kind = "set"
          /\ state.payout_status.status \in {"COMPLETED", "FAILED"}
    /\ (SettlementRan /\ pipeline = "legacy")
       => /\ state.settlement_status.kind = "set"
          /\ state.settlement_status.status = "COMPLETED"
    /\ PayoutRan
       => /\ current_data.settlement_status.kind = "set"
          /\ current_data.settlement_status.status = "COMPLETED"

C11_Witness ==
    /\ SettlementRan /\ pipeline = "veridifi"
    /\ handed = NoAddress
    /\ state.payout_status.kind = "set"
    /\ state.payout_status.status = "FAILED"

PaymentTypes == {"Green Reward (Plasma)", "Green Reward (Mock)"}

\* C12: every settlement result has executed = true, after a real payout
\* and after a fallback to the mock alike, with a marker telling the two
\* apart, for settlement_agent, settlement_agent_old and
\* _execute_plasma_payout.
C12_ResultAlwaysExecuted ==
    /\ (SettlementRan /\ pipeline = "veridifi")
       => state.payout_status.executed
    /\ (SettlementRan /\ pipeline = "legacy")
       => /\ state.settlement_status.executed
          /\ state.settlement_status.payment_type \in PaymentTypes
    /\ PayoutRan
       => /\ current_data.settlement_status.executed
          /\ current_data.settlement_status.payment_type \in PaymentTypes

\* the run_swarm_loop threads that exist and have not left their loop
LiveThreads == {t \in Threads : threads[t] \notin {"unborn", "dead"}}
\* the run_swarm_loop threads inside a cycle
CyclingThreads == {t \in Threads : threads[t] = "cycle"}

\* C13: after any sequence of start and stop requests, interleaved with the
\* loop and with cycles that raise, there are never two run_swarm_loop
\* threads that can both execute cycles, and never two cycles in progress.
C13_SingleSwarmThread ==
    pipeline = "control"
    => /\ Cardinality(LiveThreads) <= 1
       /\ Cardinality(CyclingThreads) <= 1

\* C14: start_agents called while agents_running is set changes no state and
\* reports already_running; stop_agents called while it is clear changes no
\* state and reports already_stopped.
C14_StartStopIdempotent ==
    /\ (reply.op = "start" /\ reply.running_before)
       => /\ ~reply.changed
          /\ reply.components = {}
          /\ reply.status = "already_running"
    /\ (reply.op = "stop" /\ ~reply.running_before)
       => /\ ~reply.changed
          /\ reply.components = {}
          /\ reply.status = "already_stopped"

\* a step in which stop_agents answers
StopStep == reply'.op = "stop" /\ (reply' # reply \/ agents_running' # agents_running)

\* C15: a stop request leaves every cycle in progress alone, and while
\* agents_running is clear (stop_agents has returned and start_agents has not
\* been called since) no cycle of update_data_loop or run_swarm_loop begins.
C15_StopTakesEffectAtCycleBoundary ==
    [][/\ StopStep => (threads' = threads /\ update_thread' = update_thread)
       /\ ~agents_running
          => /\ update_thread' = "cycle" => update_thread = "cycle"
             /\ \A t \in Threads :
                    threads'[t] = "cycle" => threads[t] = "cycle"]_vars

C15_Witness ==
    /\ pipeline = "control"
    /\ reply.op = "stop" /\ ~agents_running
    /\ update_thread = "cycle"
    /\ CyclingThreads # {}

\* C16: no thread of the loops ends on its own (a run_swarm_loop thread
\* leaves its loop only when it finds agents_running clear, an exception in
\* a cycle keeps it in the loop), and as long as agents_running stays set,
\* update_data_loop and every live run_swarm_loop thread begin a cycle again
\* and again.
C16_LoopsNeverDieAndKeepCycling ==
    /\ [][\A t \in Threads :
            (threads'[t] = "dead" /\ threads[t] # "dead") => ~agents_running]_vars
    /\ []<>(~agents_running \/ update_thread = "cycle")
    /\ \A t \in Threads :
           []<>(~agents_running \/ threads[t] \in {"unborn", "dead", "cycle"})

C16_Witness ==
    /\ pipeline = "control" /\ agents_running
    /\ \E t \in Threads : threads[t] = "retry"
    /\ update_thread = "sleep"

\* the decision make_treasury_decision computes from the market_report,
\* carbon_audit and fdc_verification_status the snapshot holds now
SnapshotDecision ==
    make_treasury_decision(current_data, CHOOSE e \in PlasmaEnvs : TRUE,
                           NoAddress, "ok_hash").treasury_decision

\* C17: a snapshot read at any moment of update_data_loop never holds a
\* treasury_decision computed from a market_report, carbon_audit or
\* fdc_verification_status other than the ones in that snapshot.
C17_SnapshotDecisionMatchesInputs ==
    (pipeline = "dashboard" /\ current_data.treasury_decision.decision # "None")
    => current_data.treasury_decision = SnapshotDecision

\* C18: every decision of update_data_loop is computed from a price reading
\* and an attestation reading both fetched in the same cycle, and no
\* settlement result of an earlier cycle is carried into a later one.
C18_CyclesIndependent ==
    /\ (CycleDone /\ cyc.decided) => (cyc.market /\ cyc.carbon)
    /\ (CycleDone /\ cyc.decided
        /\ current_data.treasury_decision.decision # "EXECUTE_BUY")
       => current_data.settlement_status.kind = "None"

\* 0x followed by exactly 40 hex characters
ValidAddress(a) == a.starts0x /\ a.len = 42 /\ a.hex

\* C19: every recipient handed to the payout subprocess is 0x followed by
\* exactly 40 hex characters, whichever source it came from; any other
\* address is rejected before the subprocess is called.
C19_HandedAddressValid ==
    handed # NoAddress => ValidAddress(handed)

\* the most recent Min(n, bound) of the entries 1..n, in append order
MostRecent(n, bound) ==
    LET k == IF n < bound THEN n ELSE bound
    IN [i \in 1..k |-> n - k + i]

\* C20: after n calls of log_agent, agent_logs holds exactly the most recent
\* min(n, 100) entries in append order and never more than 100; likewise
\* plasma_commands after log_plasma_command, with bound 50.
C20_LogsBoundedFifo ==
    pipeline = "logs"
    => /\ agent_logs = MostRecent(log_calls, 100)
       /\ Len(agent_logs) <= 100
       /\ plasma_commands = MostRecent(cmd_calls, 50)
       /\ Len(plasma_commands) <= 50

C20_Witness ==
    /\ pipeline = "logs"
    /\ log_calls > 100 /\ Len(agent_logs) = 100
    /\ agent_logs[1] = log_calls - 99
    /\ cmd_calls > 50 /\ Len(plasma_commands) = 50
    /\ plasma_commands[1] = cmd_calls - 49

\* the three verdicts of a Decision
Verdicts == {"EXECUTE_BUY", "WAIT", "HALT_ACTIVITY"}

\* C21: the verdict published at the end of every run of either graph and by
\* every make_treasury_decision call is one of EXECUTE_BUY, WAIT and
\* HALT_ACTIVITY.
C21_VerdictOneOfThree ==
    /\ RunDone => state.treasury_decision \in Verdicts
    /\ (pipeline = "dashboard" /\ cyc.decided)
       => current_data.treasury_decision.decision \in Verdicts

\* an oracle answer whose XRP reading is fresh
FreshXrp(w) == w.ok /\ w.xrp_age <= ORACLE_TIMEOUT_SECONDS
\* a verified reading whose intensity is in [50, 150)
AmberReading(r) ==
    VerifiedReading(r) /\ r.intensity >= GREEN_THRESHOLD
    /\ r.intensity < AMBER_THRESHOLD
\* reasons that name the price being at or above the target
PriceReasons ==
    {"Price >= target", "XRP Price is above target", "XRP price above target"}
\* reasons that name the carbon not being green
CarbonReasons ==
    {"FDC proof not valid (carbon >= threshold)",
     "FDC verified but carbon is not low", "Energy is not Green",
     "Waiting for Green energy"}

\* C22 (as stated): when no earlier rule matches the verdict is WAIT; with a
\* fresh price and a green-verified attestation but price >= 1.10 the reason
\* names the price; with a fresh price and a VERIFIED attestation whose
\* intensity is in [50, 150) the reason names the carbon not being green,
\* whatever the price.
C22_Original_WaitReasonNamesCarbon ==
    /\ (ManagerDone /\ FreshXrp(price_in)
        /\ price_in.xrp_price >= XRP_TARGET_PRICE
        /\ GreenReading(AttestationReading(att_in)))
       => /\ state.treasury_decision = "WAIT"
          /\ state.decision_reason \in PriceReasons
    /\ (LegacyDone /\ FreshAll(price_in)
        /\ price_in.xrp_price >= XRP_TARGET_PRICE
        /\ GreenReading(AttestationReading(att_in)))
       => /\ state.treasury_decision = "WAIT"
          /\ state.decision_reason \in PriceReasons
    /\ (ManagerDone /\ FreshXrp(price_in)
        /\ AmberReading(AttestationReading(att_in)))
       => /\ state.treasury_decision = "WAIT"
          /\ state.decision_reason \in CarbonReasons
    /\ (LegacyDone /\ FreshAll(price_in)
        /\ AmberReading(AttestationReading(att_in)))
       => /\ state.treasury_decision = "WAIT"
          /\ state.decision_reason \in CarbonReasons

\* C22 (amended): when no earlier rule matches the verdict is WAIT with a
\* reason naming a condition that failed.  Green-verified attestation and
\* price >= 1.10: the reason names the price.  VERIFIED attestation with
\* intensity in [50, 150): treasury_manager_agent names the carbon whatever
\* the price; manager_agent names the carbon when the price is below 1.10 and
\* the price when it is not.
C22_WaitReasonNamesFailedCondition ==
    /\ (ManagerDone /\ FreshXrp(price_in)
        /\ price_in.xrp_price >= XRP_TARGET_PRICE
        /\ GreenReading(AttestationReading(att_in)))
       => /\ state.treasury_decision = "WAIT"
          /\ state.decision_reason \in PriceReasons
    /\ (LegacyDone /\ FreshAll(price_in)
        /\ price_in.xrp_price >= XRP_TARGET_PRICE
        /\ GreenReading(AttestationReading(att_in)))
       => /\ state.treasury_decision = "WAIT"
          /\ state.decision_reason \in PriceReasons
    /\ (ManagerDone /\ FreshXrp(price_in)
        /\ AmberReading(AttestationReading(att_in)))
       => /\ state.treasury_decision = "WAIT"
          /\ state.decision_reason \in
                 IF price_in.xrp_price < XRP_TARGET_PRICE
                 THEN CarbonReasons ELSE PriceReasons
    /\ (LegacyDone /\ FreshAll(price_in)
        /\ AmberReading(AttestationReading(att_in)))
       => /\ state.treasury_decision = "WAIT"
          /\ state.decision_reason \in CarbonReasons

C22_Witness ==
    /\ pipeline = "veridifi" /\ node = "END"
    /\ FreshXrp(price_in) /\ price_in.xrp_price < XRP_TARGET_PRICE
    /\ AmberReading(AttestationReading(att_in))
    /\ state.treasury_decision = "WAIT"
    /\ state.decision_reason = "FDC proof not valid (carbon >= threshold)"

\* the scout of a graph has run / the auditor of a graph has run
ScoutDone ==
    \/ pipeline = "veridifi" /\ node \in {"auditor", "manager", "settlement", "END"}
    \/ pipeline = "legacy" /\ node # "oracle_scout"
AuditorDone ==
    \/ pipeline = "veridifi" /\ node \in {"manager", "settlement", "END"}
    \/ pipeline = "legacy"
       /\ node \in {"treasury_manager", "error_halt", "settlement", "END"}

\* C23: the threshold comparisons are strict at the boundary values: a price
\* of exactly 1.10 never produces EXECUTE_BUY; a verified intensity of exactly
\* 50 is VERIFIED, not green-verified; a verified intensity of exactly 150 is
\* Red; a price reading exactly 180 s old is not an oracle timeout while one
\* 181 s old is.
C23_StrictAtBoundaries ==
    /\ (pipeline \in {"veridifi", "legacy"} /\ price_in.ok
        /\ price_in.xrp_price = XRP_TARGET_PRICE)
       => state.treasury_decision # "EXECUTE_BUY" /\ node # "settlement"
    /\ (pipeline = "terminal" /\ price_in.ok
        /\ price_in.xrp_price = XRP_TARGET_PRICE)
       => decision_data.decision # "EXECUTE_BUY"
    /\ (CycleDone /\ mr_src.ok /\ mr_src.xrp_price = XRP_TARGET_PRICE)
       => current_data.treasury_decision.decision # "EXECUTE_BUY"
    /\ (att_in.core /\ VerifiedReading(AttestationReading(att_in))
        /\ AttestationReading(att_in).intensity = GREEN_THRESHOLD)
       => /\ check_fdc_verification(att_in).status = "VERIFIED"
          /\ ~check_fdc_verification(att_in).is_low_carbon
          /\ AuditorDone => /\ state.fdc_verification_status = "VERIFIED"
                            /\ ~state.carbon_audit.is_green
    /\ (pipeline = "dashboard" /\ VerifiedReading(ca_src)
        /\ ca_src.intensity = GREEN_THRESHOLD)
       => /\ current_data.fdc_verification_status = "VERIFIED"
          /\ current_data.carbon_audit.status = "Amber"
    /\ (pipeline = "legacy" /\ AuditorDone
        /\ VerifiedReading(AttestationReading(att_in))
        /\ AttestationReading(att_in).intensity = AMBER_THRESHOLD)
       => state.carbon_audit.status = "Red" /\ state.carbon_audit.is_red
    /\ (pipeline = "dashboard" /\ VerifiedReading(ca_src)
        /\ ca_src.intensity = AMBER_THRESHOLD)
       => current_data.carbon_audit.status = "Red"
    /\ (pipeline = "terminal" /\ FreshXrp(price_in)
        /\ VerifiedReading(AttestationReading(att_in))
        /\ AttestationReading(att_in).intensity = AMBER_THRESHOLD)
       => decision_data.reason = "Energy is Red"
    /\ (pipeline = "veridifi" /\ ScoutDone /\ price_in.ok)
       => /\ price_in.xrp_age = ORACLE_TIMEOUT_SECONDS
             => state.ftso_price = price_in.xrp_price /\ state.errors = <<>>
          /\ price_in.xrp_age = ORACLE_TIMEOUT_SECONDS + 1
             => state.ftso_price = None /\ state.errors # <<>>
    /\ (pipeline = "legacy" /\ ScoutDone /\ price_in.ok
        /\ price_in.btc_age <= ORACLE_TIMEOUT_SECONDS)
       => /\ price_in.xrp_age = ORACLE_TIMEOUT_SECONDS
             => state.market_report.kind = "VALID"
          /\ price_in.xrp_age = ORACLE_TIMEOUT_SECONDS + 1
             => state.market_report.kind = "ORACLE_TIMEOUT"
    /\ (pipeline = "dashboard" /\ mr_src.ok
        /\ mr_src.btc_age <= ORACLE_TIMEOUT_SECONDS)
       => /\ mr_src.xrp_age = ORACLE_TIMEOUT_SECONDS
             => current_data.market_report.kind = "VALID"
          /\ mr_src.xrp_age = ORACLE_TIMEOUT_SECONDS + 1
             => current_data.market_report.kind = "ORACLE_TIMEOUT"
    /\ (pipeline = "terminal" /\ price_in.ok)
       => /\ price_in.xrp_age = ORACLE_TIMEOUT_SECONDS
             => decision_data.reason # "Oracle Timeout"
          /\ price_in.xrp_age = ORACLE_TIMEOUT_SECONDS + 1
             => decision_data.reason = "Oracle Timeout"

C23_Witness ==
    /\ pipeline = "legacy" /\ node = "END"
    /\ price_in.ok /\ price_in.xrp_price = XRP_TARGET_PRICE
    /\ price_in.xrp_age = ORACLE_TIMEOUT_SECONDS
    /\ state.market_report.kind = "VALID"
    /\ AttestationReading(att_in).intensity = AMBER_THRESHOLD
    /\ state.carbon_audit.is_red
    /\ state.treasury_decision = "WAIT"

\* C24: within every cycle the steps run in the order price fetch,
\* attestation fetch/verify, decide, settle: in both graphs and in
\* update_data_loop the decision step never runs before both fetch steps of
\* that cycle have completed, and settlement never runs before the decision.
C24_StepsInOrder ==
    /\ pipeline \in {"veridifi", "legacy"}
       => /\ ~ScoutDone => state = initial_state
          /\ (ScoutDone /\ ~AuditorDone)
             => /\ state.carbon_audit = NoAudit
                /\ state.fdc_verification_status = "None"
          /\ state.treasury_decision # "None" => AuditorDone
          /\ (settle_count > 0 \/ state.payout_status.kind # "None"
              \/ state.settlement_status.kind # "None")
             => state.treasury_decision = "EXECUTE_BUY" /\ node = "END"
    /\ (pipeline = "dashboard" /\ cyc.decided)
       => upd_pc = "fetch_market" /\ cyc.carbon
    /\ (pipeline = "dashboard" /\ handed # NoAddress) => cyc.decided

\* C25: a feed adapter returns an explicit failure whenever an external read
\* fails and never builds a reading from a default: when the read of the
\* round's intensity fails in check_fdc_verification, or the read of the
\* round id fails in get_carbon_intensity, the adapter returns a failure.
C25_FailedReadIsFailure ==
    /\ (pipeline \in {"veridifi", "legacy", "terminal"} /\ att_in.core
        /\ att_in.round # Raises /\ att_in.round > 0
        /\ att_in.round_int = Raises)
       => check_fdc_verification(att_in).none
    /\ (pipeline = "guardrail" /\ att_in.core /\ att_in.round = Raises)
       => get_carbon_intensity(att_in).none /\ carbon_data.none

\* C26: whenever check_fdc_verification reports a verified reading with round
\* id r > 0 and intensity i, the carbon_audit published by auditor_agent,
\* environmental_auditor_agent and fetch_carbon_data contains round id r and
\* intensity i.
C26_AuditCarriesRoundAndIntensity ==
    /\ (AuditorDone /\ check_fdc_verification(att_in).verified)
       => /\ state.carbon_audit.voting_round_id
                 = check_fdc_verification(att_in).voting_round_id
          /\ state.carbon_audit.voting_round_id > 0
          /\ state.carbon_audit.intensity
                 = check_fdc_verification(att_in).intensity
    /\ (pipeline = "dashboard" /\ VerifiedReading(ca_src))
       => /\ current_data.carbon_audit.intensity = ca_src.intensity
          /\ current_data.carbon_audit.voting_round_id = ca_src.round

\* the components that write to the dashboard's log
Components == {"Scout", "Auditor", "Manager", "Settlement", "System"}
\* the entries of the current cycle that state a verdict
DecisionEntries ==
    {i \in 1..Len(cyc.logs) : cyc.logs[i].verdict # "None"}

\* C27: every cycle of update_data_loop appends at least one log entry naming
\* the acting component, and every assignment of treasury_decision by
\* make_treasury_decision comes with a Manager entry, written in the same
\* call, that states the same verdict.
C27_CyclesAndDecisionsAreLogged ==
    pipeline = "dashboard" =>
        /\ upd_pc # "fetch_market" => Len(cyc.logs) >= 1
        /\ (cyc.market \/ cyc.carbon \/ cyc.decided) => Len(cyc.logs) >= 1
        /\ \A i \in 1..Len(cyc.logs) : cyc.logs[i].agent \in Components
        /\ cyc.logs # <<>> => cyc.logs[1].agent = "Scout"
        /\ cyc.decided
           => \E i \in 1..Len(cyc.logs) :
                 /\ cyc.logs[i] =
                        DecisionEntry(current_data.treasury_decision.decision)
                 /\ DecisionEntries = {i}
        /\ ~cyc.decided => DecisionEntries = {}

C27_Witness ==
    /\ CycleDone /\ cyc.decided /\ ~cyc.carbon
    /\ current_data.treasury_decision.decision = "HALT_ACTIVITY"
    /\ current_data.market_report.kind = "ORACLE_TIMEOUT"
    /\ cyc.logs = <<Entry("Scout"), DecisionEntry("HALT_ACTIVITY")>>

\* a settlement result as an earlier evaluation may have left it
SomePayout ==
    [kind |-> "set", executed |-> TRUE, status |-> "COMPLETED",
     payment_type |-> "Green Reward (Mock)", recipient |-> DEFAULT_RECIPIENT,
     has_tx |-> TRUE]
\* verdicts an earlier evaluation may have left in the state
EarlierVerdicts == Verdicts \cup {"None", "ERROR_HALT"}
\* the TreasuryState s with everything but the engine's inputs replaced
OtherStates(s) ==
    {[s EXCEPT !.treasury_decision = d, !.decision_reason = "earlier",
               !.errors = e, !.payout_status = p, !.settlement_status = p]
        : d \in EarlierVerdicts, e \in {<<>>, <<"Scout">>},
          p \in {NoPayout, SomePayout}}
\* current_data with everything but the engine's inputs replaced
OtherData(cd) ==
    {[cd EXCEPT !.treasury_decision = [decision |-> d, reason |-> "earlier"],
                !.settlement_status = p, !.user_wallet_address = a]
        : d \in EarlierVerdicts, p \in {NoPayout, SomePayout},
          a \in {NoAddress, GoodAddress}}
\* payout inputs of the second evaluation
OtherPayoutInputs ==
    {e \in PlasmaEnvs : e.green_reward_set /\ e.private_key_set /\ e.usdt_set}
    \X {NoAddress} \X {"ok_hash", "timeout"}

\* C28: the Decision Engine is deterministic: a second evaluation of
\* manager_agent, treasury_manager_agent or make_treasury_decision on the same
\* inputs (price report, carbon audit, verification status) gives the same
\* verdict and the same reason, whatever the rest of the state holds and
\* whatever an earlier evaluation left there.
C28_DecisionDeterministic ==
    /\ ManagerDone
       => \A s2 \in OtherStates(state) \cup {state} :
             /\ manager_agent(s2).treasury_decision = state.treasury_decision
             /\ manager_agent(s2).decision_reason = state.decision_reason
    /\ (LegacyDone /\ should_route_to_error_halt(state) = "treasury_manager")
       => \A s2 \in OtherStates(state) \cup {state} :
             /\ treasury_manager_agent(s2).treasury_decision
                    = state.treasury_decision
             /\ treasury_manager_agent(s2).decision_reason
                    = state.decision_reason
    /\ (pipeline = "dashboard" /\ cyc.decided)
       => \A cd2 \in OtherData(current_data) \cup {current_data},
             inp \in OtherPayoutInputs :
             make_treasury_decision(cd2, inp[1], inp[2], inp[3])
                 .treasury_decision = current_data.treasury_decision

C28_Witness ==
    /\ CycleDone /\ cyc.decided /\ ~cyc.market /\ ~cyc.carbon
    /\ current_data.treasury_decision.decision = "EXECUTE_BUY"
    /\ current_data.settlement_status.executed

\* payout attempts seen since the current cycle began: the payout of the
\* cycle's EXECUTE_BUY decision and a send_plasma_reward call of admin_pay_user
PayoutAttempts ==
    (IF cyc.decided /\ current_data.treasury_decision.decision = "EXECUTE_BUY"
     THEN 1 ELSE 0)
    + (IF cyc.admin_paid THEN 1 ELSE 0)

\* C29: in the dashboard process every payout attempt (a send_plasma_reward
\* call or a mock payout) is caused by an EXECUTE_BUY decision made in the
\* current cycle: none happens while the latest decision is WAIT,
\* HALT_ACTIVITY or absent, and at most one is made per decision cycle.
C29_PayoutOnlyOnExecuteBuy ==
    pipeline = "dashboard" =>
        /\ PayoutAttempts > 0
           => /\ cyc.decided
              /\ current_data.treasury_decision.decision = "EXECUTE_BUY"
        /\ PayoutAttempts <= 1

\* a cycle of update_data_loop has finished whose fetch_market_data returned None
FailedPriceCycleDone == CycleDone /\ cyc.logs # <<>> /\ ~cyc.market

\* C30: in every cycle of the dashboard loop in which the price fetch fails
\* (fetch_market_data returns no reading) the decision published for the
\* cycle is HALT_ACTIVITY; such a cycle never publishes or keeps EXECUTE_BUY
\* and never triggers a payout from an earlier cycle's price reading.
C30_FailedPriceFetchHalts ==
    FailedPriceCycleDone
    => /\ current_data.treasury_decision.decision = "HALT_ACTIVITY"
       /\ ~cyc.decided \/ current_data.treasury_decision.decision # "EXECUTE_BUY"
       /\ handed = NoAddress

\* the Settlement entries the current cycle appended to the log
SettlementEntries ==
    Cardinality({i \in 1..Len(cyc.logs) : cyc.logs[i].agent = "Settlement"})
\* Settlement entries of one payout attempt: module missing (4), not
\* configured (5), real payout succeeded (8), real payout failed and mocked (10)
OneAttemptEntries == {4, 5, 8, 10}

\* C31: settlement is not deduplicated across cycles: every cycle of
\* update_data_loop that reaches EXECUTE_BUY makes exactly one payout attempt
\* of its own, also when the cycle before paid for the same readings, and
\* that attempt overwrites settlement_status; a cycle with another verdict
\* makes none.
C31_PayoutEveryExecuteBuyCycle ==
    pipeline = "dashboard" =>
        /\ PayoutRan
           => /\ SettlementEntries \in OneAttemptEntries
              /\ current_data.settlement_status.executed
              /\ current_data.settlement_status.payment_type =
                     IF SettlementEntries = 8
                     THEN "Green Reward (Plasma)" ELSE "Green Reward (Mock)"
        /\ ~(cyc.decided
             /\ current_data.treasury_decision.decision = "EXECUTE_BUY")
           => SettlementEntries = 0

C31_Witness ==
    /\ PayoutRan /\ ~cyc.market /\ ~cyc.carbon
    /\ SettlementEntries = 10
    /\ current_data.settlement_status.payment_type = "Green Reward (Mock)"

\* the verdict of scout_agent + auditor_agent + manager_agent on one reading
VeridifiVerdict(pw, aw) ==
    manager_agent(auditor_agent(scout_agent(initial_state, get_latest_prices(pw)),
                                check_fdc_verification(aw))).treasury_decision

\* the verdict of oracle_scout_agent + environmental_auditor_agent +
\* treasury_manager_agent on one reading
LegacyVerdict(pw, aw) ==
    treasury_manager_agent(
        environmental_auditor_agent(
            oracle_scout_agent(initial_state, get_latest_prices(pw)),
            check_fdc_verification(aw))).treasury_decision

\* the verdict of ManagerTerminal.make_decision on one reading
TerminalVerdict(pw, aw) ==
    make_decision(get_latest_prices(pw), check_fdc_verification(aw)).decision

\* C32: the duplicated decision implementations are equivalent: on every
\* price feed outcome and attestation outcome the new graph, the legacy graph
\* and the manager terminal produce the same verdict.
C32_DuplicatesAgree ==
    (pipeline = "terminal" /\ decision_data # NoDecision) =>
        /\ decision_data.decision = TerminalVerdict(price_in, att_in)
        /\ VeridifiVerdict(price_in, att_in) = decision_data.decision
        /\ LegacyVerdict(price_in, att_in) = decision_data.decision

\* the supervisor decided on a verified reading that both adapters read alike
SupervisorDone ==
    /\ pipeline = "guardrail" /\ decision_data # NoDecision
    /\ ~get_latest_prices(price_in).none
    /\ ~carbon_data.none /\ carbon_data.is_fdc_verified
    /\ check_fdc_verification(att_in).verified
    /\ check_fdc_verification(att_in).intensity = carbon_data.intensity

\* C33: there is one canonical green threshold: a reading that
\* get_carbon_intensity calls green (and supervisor_agent approves
\* EXECUTE_TRADE on) is one check_fdc_verification calls low carbon and
\* environmental_auditor_agent and fetch_carbon_data give the Green status.
C33_OneGreenThreshold ==
    SupervisorDone =>
        LET fdc_verification == check_fdc_verification(att_in)
            audit == environmental_auditor_agent(initial_state,
                                                 fdc_verification).carbon_audit
            fetched == fetch_carbon_data(fdc_verification, Raises)
        IN /\ (decision_data.decision = "EXECUTE_TRADE") = carbon_data.is_green
           /\ carbon_data.is_green = fdc_verification.is_low_carbon
           /\ carbon_data.is_green = audit.is_green
           /\ carbon_data.is_green = fetched.is_green

\* the legacy graph's auditor has run on an attestation that is missing or
\* unverified
LegacyUnverified ==
    /\ pipeline = "legacy"
    /\ node \notin {"oracle_scout", "environmental_auditor"}
    /\ UnverifiedReading(AttestationReading(att_in))

\* C34: in the legacy graph a missing or unverified attestation routes the
\* run to error_halt, which is terminal: treasury_manager_agent and the
\* settlement node do not execute, no payout is made, and the run ends with
\* fdc_verification_status = ERROR_HALT.
C34_UnverifiedRunsHaltAtErrorHalt ==
    LegacyUnverified =>
        /\ node \in {"error_halt", "END"}
        /\ state.fdc_verification_status = "ERROR_HALT"
        /\ state.should_halt
        /\ state.treasury_decision =
               IF node = "END" THEN "ERROR_HALT" ELSE "None"
        /\ settle_count = 0
        /\ handed = NoAddress
        /\ state.settlement_status.kind = "None"
        /\ state.payout_status.kind = "None"

C34_Witness ==
    /\ LegacyUnverified /\ node = "END"
    /\ FreshAll(price_in) /\ FreshCheapXrp(price_in)
    /\ state.treasury_decision = "ERROR_HALT"

\* the status and the audit agree: green-verified exactly for a verified
\* green audit, which then has an intensity below 50 and is not red
StatusMatchesAudit(fdc_status, carbon_audit) ==
    /\ (fdc_status = "STATE_GREEN_VERIFIED")
           = (carbon_audit.is_fdc_verified /\ carbon_audit.is_green)
    /\ fdc_status = "STATE_GREEN_VERIFIED"
       => (carbon_audit.intensity < 50 /\ ~carbon_audit.is_red)

\* the reasons of the 'Energy is Red' and 'not Green' branches
BehindGateReasons ==
    {"Energy is Red", "Waiting for Green energy", "Energy is not Green"}

HandlerLogEntries ==
    Cardinality({i \in 1..Len(agent_logs) :
                    agent_logs[i].agent \in {"System", "Admin"}})
HandlerCommandEntries ==
    Cardinality({i \in 1..Len(plasma_commands) :
                    plasma_commands[i].command
                        \in {"set_wallet_address", "admin_set_wallet"}})
\* the latest request carried an address that is 0x and 40 hex characters
\* once stripped
WellFormedRequest == request.input = "valid"

\* C36: after any sequence of save_user_wallet, admin_update_wallet and
\* admin_reset_user requests the stored user_wallet_address is None or
\* matches ^0x[a-fA-F0-9]{40}$; a request with an empty or malformed
\* address is answered with an error and changes neither the stored address
\* nor the two logs: the address is the one of the last accepted request and
\* each log holds exactly the entries of the accepted requests.
C36_StoredWalletIsValidOrNone ==
    pipeline = "server" =>
        /\ current_data.user_wallet_address = NoAddress
           \/ ValidAddress(current_data.user_wallet_address)
        /\ current_data.user_wallet_address = request.stored
        /\ HandlerLogEntries = request.accepted
        /\ HandlerCommandEntries = request.wallets_set
        /\ request.endpoint \in {"user-wallet", "update-wallet"}
           => /\ (request.code = 200) = WellFormedRequest
              /\ request.code \in {200, 400, 500}

\* a malformed address was rejected while a valid one was stored
C36_Witness ==
    /\ pipeline = "server"
    /\ request.endpoint = "user-wallet" /\ request.code = 400
    /\ request.input = "malformed"
    /\ request.served = 2 /\ request.accepted = 1
    /\ current_data.user_wallet_address = GoodAddress

\* a payout of the server has finished
PayoutFinished == pipeline = "server" /\ payout.pc = "done"

\* C37: the recipient recorded in settlement_status equals the recipient the
\* payout was attempted for and logged with, also when a wallet update or a
\* user reset interleaves with _execute_plasma_payout and its fallback
\* _mock_plasma_payout.
C37_RecordedRecipientIsLoggedRecipient ==
    PayoutFinished =>
        /\ \A a \in payout.logged :
               a = current_data.settlement_status.recipient
        /\ payout.attempted # NoAddress
           => payout.attempted = current_data.settlement_status.recipient

\* the entries appended so far that fewer than 100 newer entries followed
RecentCalls == {k \in 1..log_calls : log_calls - k < MAX_AGENT_LOGS}
LoggedCalls == {agent_logs[i] : i \in 1..Len(agent_logs)}

\* C38: under concurrent log_agent calls no appended entry is lost except by
\* FIFO eviction: every entry appended is in agent_logs until at least 100
\* newer entries have been appended, for every interleaving of the append and
\* the slice reassignment.
C38_NoEntryLostBeforeEviction ==
    pipeline = "logthreads" => RecentCalls \subseteq LoggedCalls

\* the position of a node on the paths of the two graphs
NodeRank(n) ==
    IF n \in {"scout", "oracle_scout"} THEN 0
    ELSE IF n \in {"auditor", "environmental_auditor"} THEN 1
    ELSE IF n \in {"manager", "treasury_manager", "error_halt"} THEN 2
    ELSE IF n = "settlement" THEN 3
    ELSE 4

\* C39: every run of either swarm graph terminates: every step of a run
\* moves to a node further along the path (so no node runs twice and the
\* routing has no cycle), and END is always reached, whatever the feeds and
\* the payout do.
C39_EveryRunReachesEnd ==
    /\ [][\/ NodeRank(node') > NodeRank(node)
          \/ (node = "END" /\ node' = EntryNode(pipeline)
              /\ state' = initial_state)]_vars
    /\ (node # "END") ~> (node = "END")

\* a run took the longest path and ended after a failed payout
C39_Witness ==
    /\ pipeline = "legacy" /\ node = "END"
    /\ settle_count = 1
    /\ state.treasury_decision = "EXECUTE_BUY"
    /\ state.settlement_status.payment_type # "Green Reward (Plasma)"

====
